---- MODULE Spec2Model ----
(***************************************************************************)
(* weather-metrics: the KMA API-Hub ingestion scripts (UV index, ASOS      *)
(* feels-like temperature) as a state machine.                             *)
(*                                                                         *)
(* Units.  Decimal numbers are integers in hundredths (5.0 -> 500,         *)
(* 10.01 -> 1001, the KMA sentinel -9 -> -900).  Instants are minutes of   *)
(* an epoch whose day 0 starts at 00:00 UTC.  A calendar string            *)
(* YYYYMMDDHHmm is the integer DDDHHmm (day of the epoch, hour, minute),   *)
(* and a 12-digit time token of a response is TsBase + DDDHHmm.  A UV      *)
(* index value is an integer in 1/10000.                                   *)
(***************************************************************************)
EXTENDS Integers, Sequences, FiniteSets, TLC

VARIABLES
    script,     \* which script runs: "uv", "asos_tm", ...
    now,        \* Date.now() of the run, minutes UTC
    stnWanted,  \* UV_STN / ASOS_STN as a station token (10800 = "108", 0 = "0")
    pc,         \* "run" while the retry loop runs, "done" after return/throw
    pos,        \* loop indices of the next attempt: <<iStn, iTm, iVar>> (0-based)
    reqs,       \* the requests issued so far, in order
    lastOut,    \* how the last attempt ended: "accept", "http", "norows", ...
    lastErr,    \* lastErr of the driver
    resp,       \* the response the last attempt read
    result,     \* the value fetchLatest* returned, or None / Thrown(...)
    now2,       \* clock of a second run of the pipeline over the same text
    result2,    \* the reading of that second run
    written,    \* the line-protocol points main handed to writeLP, in order
    exitCode    \* the exit status of the process, -1 while it runs

vars == <<script, now, stnWanted, pc, pos, reqs, lastOut, lastErr, resp, result, now2, result2,
          written, exitCode>>

\* ------------------------------------------------------------------ bounds
MaxRows == 2

\* ------------------------------------------------------------- numbers
\* NaN of toNum / parseFloat: an integer below every token value.
NaN == -2000000000
\* A token is a 12-digit numeral (YYYYMMDDHHmm) iff it is >= TsBase.
TsBase == 1000000000
\* toNum's missing-value threshold: n <= -8.9 -> NaN
SENTINEL_MAX == -890

None == [kind |-> "none"]

isFinite(x) == x # NaN

Min(a, b) == IF a < b THEN a ELSE b

\* Array.prototype.findIndex: 0-based index of the first element with P, or -1
RECURSIVE findIndexFrom(_, _, _)
findIndexFrom(s, P(_), i) ==
    IF i > Len(s) THEN -1
    ELSE IF P(s[i]) THEN i - 1
    ELSE findIndexFrom(s, P, i + 1)

findIndex(s, P(_)) == findIndexFrom(s, P, 1)

\* r[c] for a 0-based column c of row r; undefined (-> NaN by toNum) outside
Cell(r, c) == IF c >= 0 /\ c < Len(r) THEN r[c + 1] ELSE NaN

\* const toNum = (s) => { n = parseFloat(..); return !isFinite(n) || n <= -8.9 ? NaN : n }
toNum(tok) == IF tok = NaN \/ tok <= SENTINEL_MAX THEN NaN ELSE tok

isInteger(v) == v % 100 = 0

\* ------------------------------------------------------------- time
KST_MIN == 540
STEP_MIN == 10
DAY_MIN == 1440

\* calendar fields DDDHHmm of an instant given in (shifted) minutes
fmtYMDHM(m) == (m \div DAY_MIN) * 10000 + ((m % DAY_MIN) \div 60) * 100 + (m % 60)

\* the time token of a response row observed at KST calendar DDDHHmm
TsTok(ddhhmm) == TsBase + ddhhmm

isTs12(tok) == tok >= TsBase

\* An 8-digit date token (YYYYMMDD) of KST day ddd; a 4-digit time token
\* (HHmm) is the number HHmm, "0000" being 0.
Date8Base == 500000000

DateTok(ddd) == Date8Base + ddd

isDate8(tok) == tok >= Date8Base /\ tok < TsBase

\* /^\d{4}$/ on the token after a date token: a whole number below 10000
isHHmm4(tok) == tok # NaN /\ tok >= 0 /\ tok < 1000000 /\ tok % 100 = 0

\* parseTs / parseTsKST / parseKST12: "YYYYMMDDHHmm" read as KST -> epoch;
\* null (NaN here) when the token is no 12..14-digit numeral or no valid date
parseTs(tok) ==
    IF ~isTs12(tok) THEN NaN
    ELSE LET c  == tok - TsBase
             dd == c \div 10000
             hh == (c \div 100) % 100
             mm == c % 100
         IN  IF hh > 23 \/ mm > 59 THEN NaN
             ELSE dd * DAY_MIN + hh * 60 + mm - KST_MIN

\* parseTs of the concatenation `${date}${hhmm}`
parseTsPair(d, t) ==
    IF isDate8(d) /\ isHHmm4(t) THEN parseTs(TsTok((d - Date8Base) * 10000 + t \div 100))
    ELSE NaN

\* ------------------------------------------------------------- responses
\* A response: net = the fetch promise resolved (FALSE: it rejected, a network
\* failure), ok = res.ok (2xx), comments = the '#' lines as token lists,
\* rows = the data lines as token lists (after toLines / stripTableDecor /
\* splitBy), commented = the server sent the data lines '#'-prefixed as well.
Response(net, ok, comments, rows, commented) ==
    [net |-> net, ok |-> ok, comments |-> comments, rows |-> rows, commented |-> commented]

NetFail  == Response(FALSE, FALSE, <<>>, <<>>, FALSE)
HttpFail == Response(TRUE, FALSE, <<>>, <<>>, FALSE)

\* KST calendar time of the oldest row of a modelled table: day 1, 11:50
ObsBaseKst == DAY_MIN + 11 * 60 + 50

\* the time token of row i of n: ascending (oldest first), descending (newest
\* first), or a 4-digit HHmm token where the source sends no full date-time
RowTimeTok(tf, i, n) ==
    LET t == IF tf = "desc" THEN ObsBaseKst + STEP_MIN * (n - i)
             ELSE ObsBaseKst + STEP_MIN * (i - 1)
    IN  IF tf = "hhmm" THEN (fmtYMDHM(t) % 10000) * 100
        ELSE TsTok(fmtYMDHM(t))

TimeFormats == {"asc", "desc", "hhmm"}

\* sequences over S of length 0..n
SeqsUpTo(S, n) == UNION {[1..k -> S] : k \in 0..n}

\* ------------------------------------------------------------- UV script
\* uv_to_influx.ts (first revision)
UV_BACKSTEPS == 36

\* tmCandidates10m: kstMs = now + KST, floored to 10 min; each candidate is
\* formatted by Intl.DateTimeFormat(timeZone: "Asia/Seoul") applied to
\* new Date(kstMs - i*STEP), which adds the KST offset a second time.
tmCandidates10m(nowMin, backSteps) ==
    LET kst  == nowMin + KST_MIN
        snap == kst - (kst % STEP_MIN)
    IN  [i \in 1..backSteps |-> fmtYMDHM((snap - (i - 1) * STEP_MIN) + KST_MIN)]

\* const stnList = [stnWanted, "0"]
stnList(stnW) == <<stnW, 0>>

\* the two urls of one (stn, tm): disp=0&help=0, then disp=1&help=1
uvUrls == <<[disp |-> 0, help |-> 0], [disp |-> 1, help |-> 1]>>

StnNames == {"STN", "STATION"}
UvHdrNames == {"UVB", "UV-B", "UVA", "UV-A", "EUV", "YYMM", "TM", "TIME", "DATE", "YYMMDDHHMI"}
TmHdrNames == {"YYMM", "YYMMDDHHMI", "TM", "TIME", "DATE"}

hasTok(line, names) == \E i \in 1..Len(line) : line[i] \in names

\* headerTokens: the first comment line naming STN and a UV/time column whose
\* token count equals the data row length; null is <<>>
RECURSIVE headerTokensFrom(_, _, _)
headerTokensFrom(comments, rowLen, i) ==
    IF i > Len(comments) THEN <<>>
    ELSE LET toks == comments[i]
         IN  IF hasTok(toks, StnNames) /\ hasTok(toks, UvHdrNames) /\ Len(toks) = rowLen
             THEN toks
             ELSE headerTokensFrom(comments, rowLen, i + 1)

headerTokens(comments, rowLen) == headerTokensFrom(comments, rowLen, 1)

\* toks.findIndex(t => re.test(t)) with re an anchored alternation of names
findName(toks, names) == LET P(t) == t \in names IN findIndex(toks, P)

\* pickTimeIndex: the first column of rows[0] holding a 12..14-digit numeral
\* (the split YYYYMMDD + HHmm pair does not occur among the modelled tokens)
pickTimeIndex(rows) ==
    IF Len(rows) = 0 THEN -1 ELSE findIndex(rows[1], isTs12)

\* the pair of pickTimeIndex: the first column c of rows[0] holding an
\* 8-digit date with a 4-digit time in column c + 1, when no column holds a
\* 12..14-digit numeral; -1 without such a pair
RECURSIVE pickTimePairFrom(_, _)
pickTimePairFrom(r, c) ==
    IF c + 1 >= Len(r) THEN -1
    ELSE IF isDate8(r[c + 1]) /\ isHHmm4(r[c + 2]) THEN c
    ELSE pickTimePairFrom(r, c + 1)

pickTimePair(rows) ==
    IF Len(rows) = 0 \/ pickTimeIndex(rows) >= 0 THEN -1 ELSE pickTimePairFrom(rows[1], 0)

looksStationCode(v) == isInteger(v) /\ v >= 100 /\ v < 1000000

\* pickStationIndex: the column with the largest share of station-like
\* integers among its numeric values (first such column on ties)
stationFit(rows, c) ==
    LET num == {k \in 1..Len(rows) : isFinite(toNum(Cell(rows[k], c)))}
        okk == {k \in num : LET v == toNum(Cell(rows[k], c))
                            IN isInteger(v) /\ v >= 0 /\ v < 1000000}
    IN  <<Cardinality(okk), Cardinality(num)>>

\* a/b > c/d for non-negative counts, 0/0 read as 0
fracGt(x, y) ==
    LET a == x[1] b == x[2] c == y[1] d == y[2]
    IN  IF b = 0 THEN FALSE
        ELSE IF d = 0 THEN a > 0
        ELSE a * d > c * b

RECURSIVE pickStationFrom(_, _, _, _)
pickStationFrom(rows, c, best, score) ==
    IF c >= Len(rows[1]) THEN best
    ELSE LET fit == stationFit(rows, c)
         IN  IF score = <<-1, 1>> \/ fracGt(fit, score)
             THEN pickStationFrom(rows, c + 1, c, fit)
             ELSE pickStationFrom(rows, c + 1, best, score)

pickStationIndex(rows) ==
    IF Len(rows) = 0 THEN -1 ELSE pickStationFrom(rows, 0, -1, <<-1, 1>>)

\* apply(x, t) in 1/10000: id -> x, div25 -> x / 25, mul40 -> x * 40.  A
\* 12-digit numeral or 8-digit date stays far above 20 under all three.
apply(x, t) ==
    IF x >= Date8Base THEN x
    ELSE IF t = "id" THEN 100 * x
    ELSE IF t = "div25" THEN 4 * x
    ELSE 4000 * x

UVI_MAX == 200000

inUviRange(u) == u >= 0 /\ u <= UVI_MAX

Found(uv, used, col, tx) == [kind |-> "found", uv |-> uv, used |-> used, col |-> col, tx |-> tx]

\* step 3 of tryGetUVI: the first column, not the time or station column and
\* not a station-like integer, with a transform landing in 0..20
RECURSIVE uviHeuristic(_, _, _, _)
uviHeuristic(r, c, iTime, iStn) ==
    IF c >= Len(r) THEN None
    ELSE LET raw == toNum(Cell(r, c))
         IN  IF c = iTime \/ c = iStn \/ ~isFinite(raw) \/ (isInteger(raw) /\ raw >= 100 /\ raw < 1000000)
             THEN uviHeuristic(r, c + 1, iTime, iStn)
             ELSE IF inUviRange(apply(raw, "id")) THEN Found(apply(raw, "id"), "heuristic", c, "id")
             ELSE IF inUviRange(apply(raw, "div25")) THEN Found(apply(raw, "div25"), "heuristic", c, "div25")
             ELSE IF inUviRange(apply(raw, "mul40")) THEN Found(apply(raw, "mul40"), "heuristic", c, "mul40")
             ELSE uviHeuristic(r, c + 1, iTime, iStn)

\* step 2 with the two conversions exchanged: EUV * 40, else EUV / 25
uviFromEUVMulFirst(r, idxEUV) ==
    LET raw == toNum(Cell(r, idxEUV))
    IN  IF idxEUV >= 0 /\ isFinite(raw) /\ raw >= 0
        THEN IF inUviRange(apply(raw, "mul40")) THEN Found(apply(raw, "mul40"), "EUV_mul40", idxEUV, "mul40")
             ELSE IF inUviRange(apply(raw, "div25")) THEN Found(apply(raw, "div25"), "EUV_div25", idxEUV, "div25")
             ELSE None
        ELSE None

\* step 2 of tryGetUVI: EUV / 25, else EUV * 40
uviFromEUV(r, idxEUV) ==
    LET raw == toNum(Cell(r, idxEUV))
    IN  IF idxEUV >= 0 /\ isFinite(raw) /\ raw >= 0
        THEN IF inUviRange(apply(raw, "div25")) THEN Found(apply(raw, "div25"), "EUV_div25", idxEUV, "div25")
             ELSE IF inUviRange(apply(raw, "mul40")) THEN Found(apply(raw, "mul40"), "EUV_mul40", idxEUV, "mul40")
             ELSE None
        ELSE None

\* tryGetUVI with steps 1 and 2 exchanged: the EUV conversion before UV-B
tryGetUVIEuvFirst(r, stn, stnW, ix) ==
    LET stnVal == Cell(r, ix.iStn)
        v      == toNum(Cell(r, ix.idxUVB_index))
        e      == uviFromEUV(r, ix.idxEUV)
    IN  IF stn = 0 /\ ix.iStn >= 0 /\ stnVal # NaN /\ stnVal # stnW THEN None
        ELSE IF e # None THEN e
        ELSE IF ix.idxUVB_index >= 0 /\ isFinite(v) /\ v >= 0
             THEN Found(apply(v, "id"), "UV-B", ix.idxUVB_index, "id")
        ELSE uviHeuristic(r, 0, ix.iTime, ix.iStn)

\* tryGetUVI(r) with the indices the attempt resolved (ix)
tryGetUVI(r, stn, stnW, ix) ==
    LET stnVal == Cell(r, ix.iStn)
        v      == toNum(Cell(r, ix.idxUVB_index))
        e      == uviFromEUV(r, ix.idxEUV)
    IN  IF stn = 0 /\ ix.iStn >= 0 /\ stnVal # NaN /\ stnVal # stnW THEN None
        ELSE IF ix.idxUVB_index >= 0 /\ isFinite(v) /\ v >= 0
             THEN Found(apply(v, "id"), "UV-B", ix.idxUVB_index, "id")
        ELSE IF e # None THEN e
        ELSE uviHeuristic(r, 0, ix.iTime, ix.iStn)

\* the column indices of one UV attempt (header names, then estimates)
uvIndices(comments, rows, stn) ==
    LET toks   == headerTokens(comments, Len(rows[1]))
        idxTM  == findName(toks, TmHdrNames)
        idxSTN == findName(toks, StnNames)
    IN  [ idxEUV       |-> findName(toks, {"EUV"}),
          idxUVB_index |-> findName(toks, {"UV-B"}),
          iTime        |-> IF idxTM >= 0 THEN idxTM ELSE pickTimeIndex(rows),
          pairTime     |-> IF idxTM >= 0 THEN -1 ELSE pickTimePair(rows),
          iStn         |-> IF idxSTN >= 0 THEN idxSTN
                           ELSE IF stn = 0 THEN pickStationIndex(rows) ELSE -1 ]

\* rows.filter(r => r.some(x => isFinite(toNum(x))))
uvRows(rowsAll) ==
    SelectSeq(rowsAll, LAMBDA r : \E i \in 1..Len(r) : isFinite(toNum(r[i])))

Reading(f) == [kind |-> "reading"] @@ f
Fail(why) == [kind |-> "fail", why |-> why]
Thrown(e) == [kind |-> "thrown", err |-> e]

\* the clock of the run as the timestamp, whatever the time cell
rowTsClock(r, iTime, nowMin) == nowMin

\* the timestamp of the picked row: parseTs of its time cell, else the clock
rowTs(r, iTime, nowMin) ==
    LET t == IF iTime >= 0 THEN parseTs(Cell(r, iTime)) ELSE NaN
    IN  IF t # NaN /\ t # 0 THEN t ELSE nowMin

\* else if (pairTime): parseTs of the two cells joined, else the clock
rowTsPair(r, pairTime, nowMin) ==
    LET t == parseTsPair(Cell(r, pairTime), Cell(r, pairTime + 1))
    IN  IF t # NaN /\ t # 0 THEN t ELSE nowMin

\* for (k = rows.length - 1; k >= 0; k--): the first row with a UVI, from the end
RECURSIVE uvScan(_, _, _, _, _, _)
uvScan(rows, k, stn, stnW, ix, nowMin) ==
    IF k < 1 THEN Fail("novalid")
    ELSE LET found == tryGetUVI(rows[k], stn, stnW, ix)
         IN  IF found = None THEN uvScan(rows, k - 1, stn, stnW, ix, nowMin)
             ELSE Reading([uv |-> found.uv,
                           ts |-> IF ix.iTime < 0 /\ ix.pairTime >= 0
                                  THEN rowTsPair(rows[k], ix.pairTime, nowMin)
                                  ELSE rowTs(rows[k], ix.iTime, nowMin),
                           used |-> found.used, row |-> k])

\* the body of the url loop of fetchLatestUV after the fetch resolved
uvParse(r, stn, stnW, nowMin) ==
    IF ~r.ok THEN Fail("http")
    ELSE LET rows == uvRows(r.rows)
         IN  IF Len(rows) = 0 THEN Fail("norows")
             ELSE uvScan(rows, Len(rows), stn, stnW, uvIndices(r.comments, rows, stn), nowMin)

\* ------------------------------------------------------------- feels-like
\* Math.pow / Math.exp have no integer counterpart: the formulas below are
\* tabulated, at the inputs the modelled responses can produce, from the
\* source expressions evaluated in IEEE doubles and rounded to hundredths.

\* heatIndexC(tC, rh): Rothfusz regression in Fahrenheit, back to Celsius
heatIndexC(tC, rh) ==
    CASE tC = 2700 /\ rh = 5000 -> 2742
      [] tC = 2700 /\ rh = 9000 -> 3074
      [] tC = 3100 /\ rh = 6000 -> 3485
      [] tC = 3100 /\ rh = 7000 -> 3760
      [] tC = 3100 /\ rh = 7048 -> 3774
      [] tC = 3100 /\ rh = 7500 -> 3917
      [] tC = 3100 /\ rh = 8000 -> 4088
      [] tC = 3100 /\ rh = 10000 -> 4900
      [] tC = 6000 /\ rh = 6000 -> 18677
      [] tC = 6000 /\ rh = 7000 -> 22057
      [] tC = 6000 /\ rh = 7500 -> 23854
      [] tC = 6000 /\ rh = 8000 -> 25722
      [] tC = 6000 /\ rh = 10000 -> 33905
      [] tC = 7000 /\ rh = 6000 -> 28108
      [] tC = 7000 /\ rh = 6366 -> 29949
      [] tC = 7000 /\ rh = 7000 -> 33240
      [] tC = 7000 /\ rh = 7500 -> 35933
      [] tC = 7000 /\ rh = 8000 -> 38709
      [] tC = 7000 /\ rh = 10000 -> 50655
      [] tC = 7500 /\ rh = 5134 -> 28602
      [] tC = 7500 /\ rh = 6000 -> 33630
      [] tC = 7500 /\ rh = 7000 -> 39769
      [] tC = 7500 /\ rh = 7500 -> 42973
      [] tC = 7500 /\ rh = 8000 -> 46265
      [] tC = 7500 /\ rh = 8064 -> 46696
      [] tC = 7500 /\ rh = 10000 -> 60328
      [] tC = 8000 /\ rh = 4168 -> 27406
      [] tC = 8000 /\ rh = 6000 -> 39689
      [] tC = 8000 /\ rh = 6547 -> 43599
      [] tC = 8000 /\ rh = 7000 -> 46923
      [] tC = 8000 /\ rh = 7500 -> 50680
      [] tC = 8000 /\ rh = 8000 -> 54530
      [] tC = 8000 /\ rh = 8118 -> 55455
      [] tC = 8000 /\ rh = 10000 -> 70866

\* 13.12 + 0.6215*tC - 11.37*v^0.16 + 0.3965*tC*v^0.16, v = vMs * 3.6
windChillFormula(tC, vMs) ==
    CASE tC = 0 /\ vMs = 134 -> -151
      [] tC = 0 /\ vMs = 135 -> -152
      [] tC = 0 /\ vMs = 200 -> -247
      [] tC = 0 /\ vMs = 300 -> -352
      [] tC = 0 /\ vMs = 500 -> -494
      [] tC = 0 /\ vMs = 2500 -> -1024
      [] tC = 0 /\ vMs = 3100 -> -1106
      [] tC = 0 /\ vMs = 6000 -> -1375
      [] tC = 0 /\ vMs = 7000 -> -1442
      [] tC = 0 /\ vMs = 7500 -> -1473
      [] tC = 0 /\ vMs = 8000 -> -1502
      [] tC = 200 /\ vMs = 134 -> 76
      [] tC = 200 /\ vMs = 135 -> 74
      [] tC = 200 /\ vMs = 200 -> -14
      [] tC = 200 /\ vMs = 300 -> -111
      [] tC = 200 /\ vMs = 500 -> -243
      [] tC = 200 /\ vMs = 2500 -> -737
      [] tC = 200 /\ vMs = 3100 -> -813
      [] tC = 200 /\ vMs = 6000 -> -1063
      [] tC = 200 /\ vMs = 7000 -> -1126
      [] tC = 200 /\ vMs = 7500 -> -1154
      [] tC = 200 /\ vMs = 8000 -> -1181
      [] tC = 300 /\ vMs = 134 -> 189
      [] tC = 300 /\ vMs = 135 -> 187
      [] tC = 300 /\ vMs = 200 -> 102
      [] tC = 300 /\ vMs = 300 -> 9
      [] tC = 300 /\ vMs = 500 -> -118
      [] tC = 300 /\ vMs = 2500 -> -593
      [] tC = 300 /\ vMs = 3100 -> -666
      [] tC = 300 /\ vMs = 6000 -> -907
      [] tC = 300 /\ vMs = 7000 -> -968
      [] tC = 300 /\ vMs = 7500 -> -995
      [] tC = 300 /\ vMs = 8000 -> -1021
      [] tC = 500 /\ vMs = 134 -> 415
      [] tC = 500 /\ vMs = 135 -> 414
      [] tC = 500 /\ vMs = 200 -> 335
      [] tC = 500 /\ vMs = 300 -> 249
      [] tC = 500 /\ vMs = 500 -> 132
      [] tC = 500 /\ vMs = 2500 -> -306
      [] tC = 500 /\ vMs = 3100 -> -373
      [] tC = 500 /\ vMs = 6000 -> -596
      [] tC = 500 /\ vMs = 7000 -> -651
      [] tC = 500 /\ vMs = 7500 -> -676
      [] tC = 500 /\ vMs = 8000 -> -700
      [] tC = 990 /\ vMs = 134 -> 970
      [] tC = 990 /\ vMs = 135 -> 969
      [] tC = 990 /\ vMs = 200 -> 906
      [] tC = 990 /\ vMs = 300 -> 838
      [] tC = 990 /\ vMs = 500 -> 745
      [] tC = 990 /\ vMs = 2500 -> 398
      [] tC = 990 /\ vMs = 3100 -> 344
      [] tC = 990 /\ vMs = 6000 -> 168
      [] tC = 990 /\ vMs = 7000 -> 124
      [] tC = 990 /\ vMs = 7500 -> 104
      [] tC = 990 /\ vMs = 8000 -> 85
      [] tC = 1000 /\ vMs = 134 -> 981
      [] tC = 1000 /\ vMs = 135 -> 980
      [] tC = 1000 /\ vMs = 200 -> 918
      [] tC = 1000 /\ vMs = 300 -> 850
      [] tC = 1000 /\ vMs = 500 -> 758
      [] tC = 1000 /\ vMs = 2500 -> 412
      [] tC = 1000 /\ vMs = 3100 -> 359
      [] tC = 1000 /\ vMs = 6000 -> 184
      [] tC = 1000 /\ vMs = 7000 -> 140
      [] tC = 1000 /\ vMs = 7500 -> 120
      [] tC = 1000 /\ vMs = 8000 -> 101

\* the guard of windChillC: if (tC > 10 || v <= 4.8) return tC
windChillGuard(tC, vMs) == tC > 1000 \/ vMs * 36 <= 4800

windChillC(tC, vMs) ==
    IF windChillGuard(tC, vMs) THEN tC ELSE windChillFormula(tC, vMs)

\* the cold regime below 10 degC only
feelsRegimeStrict(tC, rh, wMs) ==
    IF tC >= 2700 /\ rh >= 4000 THEN "hi"
    ELSE IF tC < 1000 /\ wMs > 134 THEN "wc"
    ELSE "t"

\* the regime of tryFetchOne / fetchLatestASOS (kma_sfctm2 revisions):
\* (tC >= 27 && rh >= 40) ? heat index : (tC <= 10 && wMs > 1.34) ? wind chill : tC
feelsRegime(tC, rh, wMs) ==
    IF tC >= 2700 /\ rh >= 4000 THEN "hi"
    ELSE IF tC <= 1000 /\ wMs > 134 THEN "wc"
    ELSE "t"

\* the heat index alone: the cold regime returns the temperature
feelsOfNoChill(tC, rh, wMs) ==
    IF feelsRegime(tC, rh, wMs) = "hi" THEN heatIndexC(tC, rh) ELSE tC

feelsOf(tC, rh, wMs) ==
    LET g == feelsRegime(tC, rh, wMs)
    IN  IF g = "hi" THEN heatIndexC(tC, rh)
        ELSE IF g = "wc" THEN windChillC(tC, wMs)
        ELSE tC

\* ------------------------------------------------------------- ASOS, single tm
\* asos_feels_to_influx.ts, kma_sfctm2 revision with tryFetchOne
ASOS_HOURS == 3

\* one time-candidate more than the 19 of three hours
tm10CandidatesLonger(nowMin, hours) ==
    LET kst == nowMin + KST_MIN
        base == kst - (kst % STEP_MIN)
    IN  [i \in 1..(hours * 6 + 2) |-> fmtYMDHM(base - (i - 1) * STEP_MIN)]

\* tm10Candidates(hours): kstNow floored to 10 min, then hours*6 + 1 steps back
tm10Candidates(nowMin, hours) ==
    LET kst  == nowMin + KST_MIN
        base == kst - (kst % STEP_MIN)
    IN  [i \in 1..(hours * 6 + 1) |-> fmtYMDHM(base - (i - 1) * STEP_MIN)]

\* const variants = [[0,0],[1,1],[1,0],[0,1]]
asosVariants ==
    << [disp |-> 0, help |-> 0], [disp |-> 1, help |-> 1],
       [disp |-> 1, help |-> 0], [disp |-> 0, help |-> 1] >>

TaNames == {"TA", "TEMP"}
HmNames == {"HM", "REH", "RH"}
WsNames == {"WS", "WSD", "WIND"}
TdNames == {"TD", "DEW"}
TmNamesAsos == {"TM", "TIME", "DATE"}

\* isGood of headerTokensAny: the line names a time, temperature, humidity
\* and wind column
isGood(toks) ==
    /\ hasTok(toks, TmNamesAsos \cup {"YYMMDDHHMI"})
    /\ hasTok(toks, TaNames)
    /\ hasTok(toks, HmNames)
    /\ hasTok(toks, WsNames)

\* headerTokensAny: the first comment line of rowLen good tokens (the source
\* tries the longest comment first; a modelled response has one header line at
\* most, and its data area holds no textual line)
RECURSIVE headerTokensAnyFrom(_, _, _)
headerTokensAnyFrom(comments, rowLen, i) ==
    IF i > Len(comments) THEN <<>>
    ELSE IF Len(comments[i]) = rowLen /\ isGood(comments[i]) THEN comments[i]
    ELSE headerTokensAnyFrom(comments, rowLen, i + 1)

headerTokensAny(comments, rowLen) == headerTokensAnyFrom(comments, rowLen, 1)

\* idxByName(toks, re)
idxByName(toks, names) == IF toks = <<>> THEN -1 ELSE findName(toks, names)

\* buildRowsFrom: rows of at least 5 tokens
buildRowsFrom(body) == SelectSeq(body, LAMBDA r : Len(r) >= 5)

\* the body lines of tryFetchOne: the data lines, or, when every line came as
\* a comment, the comment lines holding a run of 8 or more digits
asosBody(r) ==
    IF ~r.commented THEN r.rows
    ELSE SelectSeq(r.rows, LAMBDA row : \E i \in 1..Len(row) : isTs12(row[i]))

\* the value checks of tryFetchOne
okTA(tC) == isFinite(tC) /\ tC > -6000 /\ tC < 6000
okRH(rh) == isFinite(rh) /\ rh >= 0 /\ rh <= 10000
okWS(w)  == isFinite(w) /\ w >= 0 /\ w <= 6000

\* tryFetchOne after the fetch resolved; tm is the queried candidate
tryFetchOne(r, tm) ==
    IF ~r.ok THEN Fail("http")
    ELSE LET body  == asosBody(r)
             rowsS == buildRowsFrom(body)
         IN  IF Len(body) = 0 THEN Fail("norows")
             ELSE IF Len(rowsS) = 0 THEN Fail("norows_build")
             ELSE LET rowS == rowsS[Len(rowsS)]
                      toks == headerTokensAny(r.comments, Len(rowS))
                      iTA  == idxByName(toks, TaNames)
                      iHM  == idxByName(toks, HmNames)
                      iWS  == idxByName(toks, WsNames)
                      tC   == toNum(Cell(rowS, iTA))
                      rh   == toNum(Cell(rowS, iHM))
                      wMs  == toNum(Cell(rowS, iWS))
                  IN  IF iTA < 0 \/ iHM < 0 \/ iWS < 0 THEN Fail("header")
                      ELSE IF ~okTA(tC) THEN Fail("badTA")
                      ELSE IF ~okRH(rh) THEN Fail("badRH")
                      ELSE IF ~okWS(wMs) THEN Fail("badWS")
                      ELSE Reading([tC |-> tC, rh |-> rh, wMs |-> wMs,
                                    feels |-> feelsOf(tC, rh, wMs),
                                    ts |-> parseTs(TsTok(tm)), row |-> Len(rowsS)])

\* ------------------------------------------------------------- ASOS, window
\* unnamed/part_003: one request over the last three hours; columns by header
\* name, else by the distribution of the values

Abs(x) == IF x < 0 THEN -x ELSE x

\* parseKST12(raw): epoch of a 12..14 digit KST time, else null (NaN)
parseKST12(tok) ==
    IF ~isTs12(tok) THEN NaN
    ELSE LET c  == tok - TsBase
             dd == c \div 10000
             hh == (c \div 100) % 100
             mm == c % 100
         IN  IF hh > 23 \/ mm > 59 THEN NaN
             ELSE dd * DAY_MIN + hh * 60 + mm - KST_MIN

\* [...a].sort((x, y) => x - y)
RECURSIVE sortNum(_)
sortNum(a) ==
    IF Len(a) <= 1 THEN a
    ELSE LET m == CHOOSE i \in 1..Len(a) : \A j \in 1..Len(a) : a[i] <= a[j]
         IN  <<a[m]>> \o sortNum(SubSeq(a, 1, m - 1) \o SubSeq(a, m + 1, Len(a)))

\* median(a); the cells of the modelled tables are multiples of 0.02, so the
\* mean of the two middle values is a whole number of hundredths
median(a) ==
    IF Len(a) = 0 THEN NaN
    ELSE LET b == sortNum(a)
             m == Len(b) \div 2
         IN  IF Len(b) % 2 = 1 THEN b[m + 1] ELSE (b[m] + b[m + 1]) \div 2

\* rows.map(r => r[c]).filter(isFinite)
colVals(rows, c) == SelectSeq([k \in 1..Len(rows) |-> Cell(rows[k], c)], isFinite)

\* bestIndex(rows, ok, score): the first column of highest score > -1 among
\* the columns holding an ok value; unit is the scale of the score (1 for a
\* count, 100 for a value in hundredths)
RECURSIVE bestIndexFrom(_, _, _, _, _, _)
bestIndexFrom(rows, ok(_), score(_), c, best, s) ==
    IF Len(rows) = 0 \/ c >= Len(rows[1]) THEN best
    ELSE LET vals == colVals(rows, c)
         IN  IF Len(vals) = 0 \/ Len(SelectSeq(vals, ok)) = 0
             THEN bestIndexFrom(rows, ok, score, c + 1, best, s)
             ELSE IF score(vals) > s
             THEN bestIndexFrom(rows, ok, score, c + 1, c, score(vals))
             ELSE bestIndexFrom(rows, ok, score, c + 1, best, s)

bestIndex(rows, ok(_), score(_), unit) == bestIndexFrom(rows, ok, score, 0, -1, -unit)

\* max(0, min(100, 100 * exp(a*tdC/(b+tdC) - a*tC/(b+tC)))), a = 17.625, b = 243.04
rhFromTdTable(tC, tdC) ==
    CASE tC = 0 /\ tdC = 0 -> 10000
      [] tC = 0 /\ tdC = 200 -> 10000
      [] tC = 0 /\ tdC = 300 -> 10000
      [] tC = 0 /\ tdC = 500 -> 10000
      [] tC = 0 /\ tdC = 2500 -> 10000
      [] tC = 0 /\ tdC = 3100 -> 10000
      [] tC = 0 /\ tdC = 6000 -> 10000
      [] tC = 0 /\ tdC = 7000 -> 10000
      [] tC = 0 /\ tdC = 7500 -> 10000
      [] tC = 0 /\ tdC = 8000 -> 10000
      [] tC = 0 /\ tdC = 10800 -> 10000
      [] tC = 0 /\ tdC = 12000 -> 10000
      [] tC = 0 /\ tdC = 1000000000 -> 10000
      [] tC = 200 /\ tdC = 0 -> 8660
      [] tC = 200 /\ tdC = 200 -> 10000
      [] tC = 200 /\ tdC = 300 -> 10000
      [] tC = 200 /\ tdC = 500 -> 10000
      [] tC = 200 /\ tdC = 2500 -> 10000
      [] tC = 200 /\ tdC = 3100 -> 10000
      [] tC = 200 /\ tdC = 6000 -> 10000
      [] tC = 200 /\ tdC = 7000 -> 10000
      [] tC = 200 /\ tdC = 7500 -> 10000
      [] tC = 200 /\ tdC = 8000 -> 10000
      [] tC = 200 /\ tdC = 10800 -> 10000
      [] tC = 200 /\ tdC = 12000 -> 10000
      [] tC = 200 /\ tdC = 1000000000 -> 10000
      [] tC = 300 /\ tdC = 0 -> 8066
      [] tC = 300 /\ tdC = 200 -> 9314
      [] tC = 300 /\ tdC = 300 -> 10000
      [] tC = 300 /\ tdC = 500 -> 10000
      [] tC = 300 /\ tdC = 2500 -> 10000
      [] tC = 300 /\ tdC = 3100 -> 10000
      [] tC = 300 /\ tdC = 6000 -> 10000
      [] tC = 300 /\ tdC = 7000 -> 10000
      [] tC = 300 /\ tdC = 7500 -> 10000
      [] tC = 300 /\ tdC = 8000 -> 10000
      [] tC = 300 /\ tdC = 10800 -> 10000
      [] tC = 300 /\ tdC = 12000 -> 10000
      [] tC = 300 /\ tdC = 1000000000 -> 10000
      [] tC = 500 /\ tdC = 0 -> 7010
      [] tC = 500 /\ tdC = 200 -> 8094
      [] tC = 500 /\ tdC = 300 -> 8690
      [] tC = 500 /\ tdC = 500 -> 10000
      [] tC = 500 /\ tdC = 2500 -> 10000
      [] tC = 500 /\ tdC = 3100 -> 10000
      [] tC = 500 /\ tdC = 6000 -> 10000
      [] tC = 500 /\ tdC = 7000 -> 10000
      [] tC = 500 /\ tdC = 7500 -> 10000
      [] tC = 500 /\ tdC = 8000 -> 10000
      [] tC = 500 /\ tdC = 10800 -> 10000
      [] tC = 500 /\ tdC = 12000 -> 10000
      [] tC = 500 /\ tdC = 1000000000 -> 10000
      [] tC = 2500 /\ tdC = 0 -> 1932
      [] tC = 2500 /\ tdC = 200 -> 2231
      [] tC = 2500 /\ tdC = 300 -> 2396
      [] tC = 2500 /\ tdC = 500 -> 2757
      [] tC = 2500 /\ tdC = 2500 -> 10000
      [] tC = 2500 /\ tdC = 3100 -> 10000
      [] tC = 2500 /\ tdC = 6000 -> 10000
      [] tC = 2500 /\ tdC = 7000 -> 10000
      [] tC = 2500 /\ tdC = 7500 -> 10000
      [] tC = 2500 /\ tdC = 8000 -> 10000
      [] tC = 2500 /\ tdC = 10800 -> 10000
      [] tC = 2500 /\ tdC = 12000 -> 10000
      [] tC = 2500 /\ tdC = 1000000000 -> 10000
      [] tC = 3100 /\ tdC = 0 -> 1362
      [] tC = 3100 /\ tdC = 200 -> 1572
      [] tC = 3100 /\ tdC = 300 -> 1688
      [] tC = 3100 /\ tdC = 500 -> 1943
      [] tC = 3100 /\ tdC = 2500 -> 7048
      [] tC = 3100 /\ tdC = 3100 -> 10000
      [] tC = 3100 /\ tdC = 6000 -> 10000
      [] tC = 3100 /\ tdC = 7000 -> 10000
      [] tC = 3100 /\ tdC = 7500 -> 10000
      [] tC = 3100 /\ tdC = 8000 -> 10000
      [] tC = 3100 /\ tdC = 10800 -> 10000
      [] tC = 3100 /\ tdC = 12000 -> 10000
      [] tC = 3100 /\ tdC = 1000000000 -> 10000
      [] tC = 6000 /\ tdC = 0 -> 305
      [] tC = 6000 /\ tdC = 200 -> 352
      [] tC = 6000 /\ tdC = 300 -> 378
      [] tC = 6000 /\ tdC = 500 -> 435
      [] tC = 6000 /\ tdC = 2500 -> 1579
      [] tC = 6000 /\ tdC = 3100 -> 2241
      [] tC = 6000 /\ tdC = 6000 -> 10000
      [] tC = 6000 /\ tdC = 7000 -> 10000
      [] tC = 6000 /\ tdC = 7500 -> 10000
      [] tC = 6000 /\ tdC = 8000 -> 10000
      [] tC = 6000 /\ tdC = 10800 -> 10000
      [] tC = 6000 /\ tdC = 12000 -> 10000
      [] tC = 6000 /\ tdC = 1000000000 -> 10000
      [] tC = 7000 /\ tdC = 0 -> 194
      [] tC = 7000 /\ tdC = 200 -> 224
      [] tC = 7000 /\ tdC = 300 -> 241
      [] tC = 7000 /\ tdC = 500 -> 277
      [] tC = 7000 /\ tdC = 2500 -> 1005
      [] tC = 7000 /\ tdC = 3100 -> 1426
      [] tC = 7000 /\ tdC = 6000 -> 6366
      [] tC = 7000 /\ tdC = 7000 -> 10000
      [] tC = 7000 /\ tdC = 7500 -> 10000
      [] tC = 7000 /\ tdC = 8000 -> 10000
      [] tC = 7000 /\ tdC = 10800 -> 10000
      [] tC = 7000 /\ tdC = 12000 -> 10000
      [] tC = 7000 /\ tdC = 1000000000 -> 10000
      [] tC = 7500 /\ tdC = 0 -> 157
      [] tC = 7500 /\ tdC = 200 -> 181
      [] tC = 7500 /\ tdC = 300 -> 194
      [] tC = 7500 /\ tdC = 500 -> 223
      [] tC = 7500 /\ tdC = 2500 -> 811
      [] tC = 7500 /\ tdC = 3100 -> 1150
      [] tC = 7500 /\ tdC = 6000 -> 5134
      [] tC = 7500 /\ tdC = 7000 -> 8064
      [] tC = 7500 /\ tdC = 7500 -> 10000
      [] tC = 7500 /\ tdC = 8000 -> 10000
      [] tC = 7500 /\ tdC = 10800 -> 10000
      [] tC = 7500 /\ tdC = 12000 -> 10000
      [] tC = 7500 /\ tdC = 1000000000 -> 10000
      [] tC = 8000 /\ tdC = 0 -> 127
      [] tC = 8000 /\ tdC = 200 -> 147
      [] tC = 8000 /\ tdC = 300 -> 158
      [] tC = 8000 /\ tdC = 500 -> 181
      [] tC = 8000 /\ tdC = 2500 -> 658
      [] tC = 8000 /\ tdC = 3100 -> 934
      [] tC = 8000 /\ tdC = 6000 -> 4168
      [] tC = 8000 /\ tdC = 7000 -> 6547
      [] tC = 8000 /\ tdC = 7500 -> 8118
      [] tC = 8000 /\ tdC = 8000 -> 10000
      [] tC = 8000 /\ tdC = 10800 -> 10000
      [] tC = 8000 /\ tdC = 12000 -> 10000
      [] tC = 8000 /\ tdC = 1000000000 -> 10000

\* rhFromTd(tC, tdC) of part_003 and part_002; a 12-digit number as tdC
\* saturates the formula, whatever its digits
rhFromTd(tC, tdC) == rhFromTdTable(tC, Min(tdC, TsBase))

\* headerTokens of part_003 / part_002: the first comment line naming a time,
\* temperature, humidity and wind column and holding rowLen tokens
RECURSIVE headerTokensAsosFrom(_, _, _)
headerTokensAsosFrom(comments, rowLen, i) ==
    IF i > Len(comments) THEN <<>>
    ELSE IF /\ hasTok(comments[i], TmNamesAsos) /\ hasTok(comments[i], TaNames)
            /\ hasTok(comments[i], HmNames) /\ hasTok(comments[i], WsNames)
            /\ Len(comments[i]) = rowLen
         THEN comments[i]
    ELSE headerTokensAsosFrom(comments, rowLen, i + 1)

headerTokensAsos(comments, rowLen) == headerTokensAsosFrom(comments, rowLen, 1)

TmNamesExact == {"TM", "YYMMDDHHMI", "DATE", "TIME"}

inTa50(v)  == v > -5000 /\ v < 5000
inWs60(v)  == v >= 0 /\ v <= 6000
inRh100(v) == v >= 0 /\ v <= 10000
over1(v)   == v > 100

rowsGe5(rows) == SelectSeq(rows, LAMBDA x : Len(x) >= 5)
rowsNum(rowsS) == [k \in 1..Len(rowsS) |-> [c \in 1..Len(rowsS[k]) |-> toNum(rowsS[k][c])]]

\* the column indices of part_003: by name first, then by distribution
columnsStat(comments, rowsS) ==
    LET rowsN == rowsNum(rowsS)
        toks  == headerTokensAsos(comments, Len(rowsS[1]))
        nTM   == idxByName(toks, TmNamesExact)
        nTA   == idxByName(toks, TaNames)
        nHM   == idxByName(toks, HmNames)
        nWS   == idxByName(toks, WsNames)
        nTD   == idxByName(toks, TdNames)
    IN  [ iTM |-> IF nTM < 0 THEN findIndex(rowsS[Len(rowsS)], isTs12) ELSE nTM,
          iTA |-> IF nTA < 0
                  THEN bestIndex(rowsN, inTa50, LAMBDA v : Len(SelectSeq(v, inTa50)), 1)
                  ELSE nTA,
          iHM |-> IF nHM < 0 THEN bestIndex(rowsN, inRh100, median, 100) ELSE nHM,
          iWS |-> IF nWS < 0
                  THEN bestIndex(rowsN, inWs60, LAMBDA v : Len(SelectSeq(v, over1)), 1)
                  ELSE nWS,
          iTD |-> IF nTD < 0 THEN bestIndex(rowsN, inTa50, LAMBDA v : -median(v), 100)
                  ELSE nTD ]

\* the result without the quality guard
selfCorrectNever(tC, rh, rhTd, wMs) == [rh |-> rh, feels |-> feelsOf(tC, rh, wMs)]

\* the quality guard of part_003: if (Math.abs(feels - tC) > 12 && isFinite(rhTd))
\* recompute with rhTd, and take rh = rhTd, feels = feels2 when feels2 is
\* strictly closer to tC
selfCorrect(tC, rh, rhTd, wMs) ==
    LET feels  == feelsOf(tC, rh, wMs)
        redo   == Abs(feels - tC) > 1200 /\ isFinite(rhTd)
        feels2 == IF redo THEN feelsOf(tC, rhTd, wMs) ELSE feels
        swap   == redo /\ Abs(feels2 - tC) < Abs(feels - tC)
    IN  [rh |-> IF swap THEN rhTd ELSE rh, feels |-> IF swap THEN feels2 ELSE feels]

\* one iteration of the reverse scan of part_003 on row k: the reading, or
\* "continue"
rowStat(raw, k, ix, nowMin) ==
    LET tC   == toNum(Cell(raw, ix.iTA))
        wMs  == toNum(Cell(raw, ix.iWS))
        rh0  == toNum(Cell(raw, ix.iHM))
        td   == toNum(Cell(raw, ix.iTD))
        rhTd == IF ix.iTD >= 0 /\ isFinite(td) /\ isFinite(tC) THEN rhFromTd(tC, td) ELSE NaN
        rh   == IF tC >= 1800 /\ (~isFinite(rh0) \/ rh0 < 2000 \/ rh0 > 10000) /\ isFinite(rhTd)
                THEN rhTd ELSE rh0
        t    == IF ix.iTM >= 0 THEN parseKST12(Cell(raw, ix.iTM)) ELSE NaN
        ts   == IF isFinite(t) /\ t # 0 THEN t ELSE nowMin
    IN  IF ~isFinite(tC) \/ ~isFinite(wMs) THEN Fail("continue")
        ELSE IF ~isFinite(rh) \/ rh < 0 \/ rh > 10000 THEN Fail("continue")
        ELSE LET kept == selfCorrect(tC, rh, rhTd, wMs)
             IN  Reading([tC |-> tC, rh |-> kept.rh, wMs |-> wMs, feels |-> kept.feels,
                          ts |-> ts, row |-> k])

\* the last row alone
scanStatLastOnly(rowsS, k, ix, nowMin) ==
    LET out == rowStat(rowsS[k], k, ix, nowMin)
    IN  IF out.kind = "reading" THEN out ELSE Thrown("no valid row")

\* for (let k = rowsS.length - 1; k >= 0; k--): the first reading from the end
RECURSIVE scanStat(_, _, _, _)
scanStat(rowsS, k, ix, nowMin) ==
    IF k < 1 THEN Thrown("no valid row")
    ELSE LET out == rowStat(rowsS[k], k, ix, nowMin)
         IN  IF out.kind = "reading" THEN out ELSE scanStat(rowsS, k - 1, ix, nowMin)

\* fetchLatestASOS of part_003 after the fetch resolved
fetchLatestASOS_stat(r, nowMin) ==
    IF ~r.ok THEN Thrown("http")
    ELSE LET data  == IF r.commented THEN <<>> ELSE r.rows
             rowsS == rowsGe5(data)
         IN  IF Len(data) = 0 THEN Thrown("no data rows")
             ELSE IF Len(rowsS) = 0 THEN Thrown("TypeError")
             ELSE LET ix == columnsStat(r.comments, rowsS)
                  IN  IF ix.iTA < 0 \/ ix.iWS < 0 THEN Thrown("columns")
                      ELSE scanStat(rowsS, Len(rowsS), ix, nowMin)

\* ------------------------------------------------------------- ASOS, latest by time
\* unnamed/part_002: one request over the last three hours; the row of the
\* greatest parsed time is used

\* the number of rows whose cell in column c is finite and ok
cntOk(rowsN, c, ok(_)) ==
    Cardinality({k \in 1..Len(rowsN) : isFinite(Cell(rowsN[k], c)) /\ ok(Cell(rowsN[k], c))})

\* pickBy(ok): the first column of the highest count, counts of 0 included
RECURSIVE pickByFrom(_, _, _, _, _)
pickByFrom(rowsN, ok(_), c, best, cntBest) ==
    IF c >= Len(rowsN[1]) THEN best
    ELSE IF cntOk(rowsN, c, ok) > cntBest
         THEN pickByFrom(rowsN, ok, c + 1, c, cntOk(rowsN, c, ok))
         ELSE pickByFrom(rowsN, ok, c + 1, best, cntBest)

pickBy(rowsN, ok(_)) == pickByFrom(rowsN, ok, 0, -1, -1)

\* the column with most cells parsed by parseKST12
RECURSIVE pickTmFrom(_, _, _, _)
pickTmFrom(rowsS, c, best, cntBest) ==
    IF c >= Len(rowsS[1]) THEN best
    ELSE LET cnt == Cardinality({k \in 1..Len(rowsS) :
                        isFinite(parseKST12(Cell(rowsS[k], c))) /\ parseKST12(Cell(rowsS[k], c)) # 0})
         IN  IF cnt > cntBest THEN pickTmFrom(rowsS, c + 1, c, cnt)
             ELSE pickTmFrom(rowsS, c + 1, best, cntBest)

\* the dew-point column: the first column other than iTA with the highest
\* share ok/seen of rows with td <= t; the share is kept as the pair <<ok, seen>>
RECURSIVE pickTdFrom(_, _, _, _, _)
pickTdFrom(rowsN, iTA, c, best, score) ==
    IF c >= Len(rowsN[1]) THEN best
    ELSE IF c = iTA THEN pickTdFrom(rowsN, iTA, c + 1, best, score)
    ELSE LET seenK == {k \in 1..Len(rowsN) :
                          isFinite(Cell(rowsN[k], c)) /\ isFinite(Cell(rowsN[k], iTA))}
             okK   == {k \in seenK : Cell(rowsN[k], c) <= Cell(rowsN[k], iTA)}
             fit   == IF seenK = {} THEN <<0, 1>> ELSE <<Cardinality(okK), Cardinality(seenK)>>
         IN  IF fit[1] * score[2] > score[1] * fit[2]
             THEN pickTdFrom(rowsN, iTA, c + 1, c, fit)
             ELSE pickTdFrom(rowsN, iTA, c + 1, best, score)

\* the column indices of part_002: by name first, then by distribution
columnsTs(comments, rowsS) ==
    LET rowsN == rowsNum(rowsS)
        toks  == headerTokensAsos(comments, Len(rowsS[1]))
        nTM   == idxByName(toks, TmNamesExact)
        nTA   == idxByName(toks, TaNames)
        nHM   == idxByName(toks, HmNames)
        nWS   == idxByName(toks, WsNames)
        nTD   == idxByName(toks, TdNames)
        iTA   == IF nTA < 0 THEN pickBy(rowsN, inTa50) ELSE nTA
    IN  [ iTM |-> IF nTM < 0 THEN pickTmFrom(rowsS, 0, -1, -1) ELSE nTM,
          iTA |-> iTA,
          iHM |-> IF nHM < 0 THEN pickBy(rowsN, inRh100) ELSE nHM,
          iWS |-> IF nWS < 0 THEN pickBy(rowsN, inWs60) ELSE nWS,
          iTD |-> IF nTD >= 0 THEN nTD
                  ELSE IF iTA >= 0 THEN pickTdFrom(rowsN, iTA, 0, -1, <<-1, 1>>)
                  ELSE -1 ]

\* a RowPick of row k, or "skip"; the pushed object carries no wMs
pickOf(raw, k, ix) ==
    LET tC  == toNum(Cell(raw, ix.iTA))
        wMs == toNum(Cell(raw, ix.iWS))
        ts  == parseKST12(Cell(raw, ix.iTM))
    IN  IF isFinite(ts) /\ isFinite(tC) /\ isFinite(wMs)
        THEN [kind |-> "pick", ts |-> ts, tC |-> tC,
              td |-> toNum(Cell(raw, ix.iTD)), rhHM |-> toNum(Cell(raw, ix.iHM)), row |-> k]
        ELSE Fail("skip")

\* picks.sort((a, b) => a.ts - b.ts); latest = picks[picks.length - 1]: the
\* pick of the greatest ts, the last of them in row order (the sort is stable)
latestPick(picks) ==
    LET best == CHOOSE i \in 1..Len(picks) :
                    /\ \A j \in 1..Len(picks) : picks[j].ts <= picks[i].ts
                    /\ \A j \in (i + 1)..Len(picks) : picks[j].ts < picks[i].ts
    IN  picks[best]

\* the regime with latest.wMs, which is undefined: the wind-chill test is
\* false. The later correction by rhTd recomputes the same value when td is
\* finite (rh is rhTd already) and is skipped otherwise.
feelsNoWind(tC, rh) == IF tC >= 2700 /\ rh >= 4000 THEN heatIndexC(tC, rh) ELSE tC

\* the correction of part_002: with a dew point, alt is computed from rhTd and
\* taken when strictly closer to tC than feels
selfCorrectTs(tC, rh, td) ==
    LET feels == feelsNoWind(tC, rh)
        rhTd  == IF isFinite(td) THEN rhFromTd(tC, td) ELSE NaN
        alt   == IF isFinite(td) THEN feelsNoWind(tC, rhTd) ELSE feels
        swap  == isFinite(td) /\ Abs(alt - tC) < Abs(feels - tC)
    IN  [rh |-> IF swap THEN rhTd ELSE rh, feels |-> IF swap THEN alt ELSE feels]

\* fetchLatestASOS of part_002 after the fetch resolved
fetchLatestASOS_ts(r) ==
    IF ~r.ok THEN Thrown("http")
    ELSE LET data  == IF r.commented THEN <<>> ELSE r.rows
             rowsS == rowsGe5(data)
         IN  IF Len(data) = 0 THEN Thrown("no data rows")
             ELSE IF Len(rowsS) = 0 THEN Thrown("TypeError")
             ELSE LET ix    == columnsTs(r.comments, rowsS)
                      all   == [k \in 1..Len(rowsS) |-> pickOf(rowsS[k], k, ix)]
                      picks == SelectSeq(all, LAMBDA x : x.kind = "pick")
                  IN  IF ix.iTA < 0 \/ ix.iWS < 0 \/ ix.iTM < 0 THEN Thrown("columns")
                      ELSE IF Len(picks) = 0 THEN Thrown("no parsable timestamp rows")
                      ELSE LET latest == latestPick(picks)
                               rhTd   == IF isFinite(latest.td)
                                         THEN rhFromTd(latest.tC, latest.td) ELSE NaN
                               rh     == IF isFinite(latest.td) THEN rhTd
                                         ELSE IF isFinite(latest.rhHM) /\ latest.rhHM >= 500
                                                 /\ latest.rhHM <= 10000
                                         THEN latest.rhHM ELSE NaN
                           IN  IF ~isFinite(rh) THEN Thrown("no usable RH")
                               ELSE LET kept == selfCorrectTs(latest.tC, rh, latest.td)
                                    IN  Reading([tC |-> latest.tC, rh |-> kept.rh, wMs |-> NaN,
                                                 feels |-> kept.feels,
                                                 ts |-> latest.ts, row |-> latest.row])

\* ------------------------------------------------------------- ASOS, back-off windows
\* asos_feels_to_influx.ts, kma_sfctm3 revision: columns by configured index,
\* three windows, each an hour further back

WIN_TRIES == 3
STALE_MIN == 180

\* floorToMinuteStepKST(dUtc, 10)
floorToMinuteStepKST(m) ==
    LET kst == m + KST_MIN IN (kst - (kst % STEP_MIN)) - KST_MIN

\* makeWindow(nowUtc): tm2 = now - 10 min floored, tm1 = tm2 - 90 min, in KST
makeWindow(nowMin) ==
    LET tm2Utc == floorToMinuteStepKST(nowMin - 10)
    IN  [tm1 |-> fmtYMDHM(tm2Utc - 90 + KST_MIN), tm2 |-> fmtYMDHM(tm2Utc + KST_MIN)]

\* kstTmToUtc(tm) and kstTmToEpochNs(tm): Date.UTC(y, M, D, h - 9, m)
kstTmToUtc(tm) ==
    (tm \div 10000) * DAY_MIN + ((tm \div 100) % 100) * 60 + (tm % 100) - KST_MIN

\* the window of the i-th attempt (0-based): the first from the clock, each
\* next one from tm2 of the one before less an hour
RECURSIVE windowAt(_, _)
windowAt(nowMin, i) ==
    IF i = 0 THEN makeWindow(nowMin)
    ELSE makeWindow(kstTmToUtc(windowAt(nowMin, i - 1).tm2) - 60)

\* ASOS_COL_* of the environment: the layout TM STN TA HM WS TD of the tables
AsosCols == [tm |-> 1, stn |-> 2, ta |-> 3, hm |-> 4, ws |-> 5, td |-> 6]

\* Number(token): a time token reads as its number; no sentinel is removed
Number(tok) == tok

\* pickNum(tokens, idx), idx 1-based; undefined is NaN
pickNum(tokens, idx) ==
    IF idx = 0 \/ idx - 1 >= Len(tokens) THEN NaN ELSE Number(tokens[idx])

\* nums.find(v => v >= lo && v <= hi)
findIn(nums, lo, hi) ==
    LET i == findIndex(nums, LAMBDA v : v >= lo /\ v <= hi)
    IN  IF i < 0 THEN NaN ELSE nums[i + 1]

\* tokens.find of a 3..5 digit integer
isStnTok(t) == isInteger(t) /\ t >= 10000 /\ t <= 9999900

\* parseAsosLinesToLatest(lines, col): the last data line only; null is None
parseAsosLinesToLatest(r, col) ==
    LET clean == IF r.commented THEN <<>> ELSE r.rows
    IN  IF Len(clean) = 0 THEN None
        ELSE LET tokens == clean[Len(clean)]
                 nums   == SelectSeq([i \in 1..Len(tokens) |-> Number(tokens[i])], isFinite)
                 tm0    == IF col.tm - 1 < Len(tokens) THEN tokens[col.tm] ELSE NaN
                 stn0   == IF col.stn - 1 < Len(tokens) THEN tokens[col.stn] ELSE NaN
                 tmI    == findIndex(tokens, isTs12)
                 stnI   == findIndex(tokens, isStnTok)
                 tm     == IF isFinite(tm0) THEN tm0
                           ELSE IF tmI < 0 THEN NaN ELSE tokens[tmI + 1]
                 stn    == IF isFinite(stn0) THEN stn0
                           ELSE IF stnI < 0 THEN NaN ELSE tokens[stnI + 1]
                 ta0    == pickNum(tokens, col.ta)
                 hm0    == pickNum(tokens, col.hm)
                 ws0    == pickNum(tokens, col.ws)
                 td0    == pickNum(tokens, col.td)
             IN  IF ~isFinite(tm) \/ ~isFinite(stn) THEN None
                 ELSE [ kind |-> "row", tm |-> tm, stn |-> stn,
                        ta |-> IF isFinite(ta0) THEN ta0 ELSE findIn(nums, -6000, 6000),
                        hm |-> IF isFinite(hm0) THEN hm0 ELSE findIn(nums, 0, 10000),
                        ws |-> IF isFinite(ws0) THEN ws0 ELSE findIn(nums, 0, 7000),
                        td |-> IF isFinite(td0) THEN td0 ELSE findIn(nums, -6000, 4000),
                        row |-> Len(clean) ]

clamp(v, lo, hi) == IF v = NaN THEN NaN ELSE IF v < lo THEN lo ELSE IF v > hi THEN hi ELSE v

\* T + 0.33*e - 0.7*ws - 4.0, e = RH/100 * 6.105 * exp(17.27*T/(237.7+T))
feelsAT(T, RH, ws) ==
    CASE T = -900 /\ RH = 100 /\ ws = 0 -> -1299
      [] T = -900 /\ RH = 100 /\ ws = 300 -> -1509
      [] T = -900 /\ RH = 100 /\ ws = 7000 -> -6199
      [] T = -900 /\ RH = 7000 /\ ws = 0 -> -1229
      [] T = -900 /\ RH = 7000 /\ ws = 300 -> -1439
      [] T = -900 /\ RH = 7000 /\ ws = 7000 -> -6129
      [] T = -900 /\ RH = 10000 /\ ws = 0 -> -1198
      [] T = -900 /\ RH = 10000 /\ ws = 300 -> -1408
      [] T = -900 /\ RH = 10000 /\ ws = 7000 -> -6098
      [] T = 500 /\ RH = 100 /\ ws = 0 -> 103
      [] T = 500 /\ RH = 100 /\ ws = 300 -> -107
      [] T = 500 /\ RH = 100 /\ ws = 7000 -> -4797
      [] T = 500 /\ RH = 3000 /\ ws = 100 -> 116
      [] T = 500 /\ RH = 3000 /\ ws = 133 -> 93
      [] T = 500 /\ RH = 3000 /\ ws = 134 -> 92
      [] T = 500 /\ RH = 3000 /\ ws = 135 -> 92
      [] T = 500 /\ RH = 3000 /\ ws = 300 -> -24
      [] T = 500 /\ RH = 5000 /\ ws = 100 -> 174
      [] T = 500 /\ RH = 5000 /\ ws = 133 -> 151
      [] T = 500 /\ RH = 5000 /\ ws = 134 -> 150
      [] T = 500 /\ RH = 5000 /\ ws = 135 -> 149
      [] T = 500 /\ RH = 5000 /\ ws = 300 -> 34
      [] T = 500 /\ RH = 7000 /\ ws = 0 -> 301
      [] T = 500 /\ RH = 7000 /\ ws = 300 -> 91
      [] T = 500 /\ RH = 7000 /\ ws = 7000 -> -4599
      [] T = 500 /\ RH = 9000 /\ ws = 100 -> 289
      [] T = 500 /\ RH = 9000 /\ ws = 133 -> 266
      [] T = 500 /\ RH = 9000 /\ ws = 134 -> 265
      [] T = 500 /\ RH = 9000 /\ ws = 135 -> 264
      [] T = 500 /\ RH = 9000 /\ ws = 300 -> 149
      [] T = 500 /\ RH = 10000 /\ ws = 0 -> 388
      [] T = 500 /\ RH = 10000 /\ ws = 300 -> 178
      [] T = 500 /\ RH = 10000 /\ ws = 7000 -> -4512
      [] T = 990 /\ RH = 3000 /\ ws = 100 -> 641
      [] T = 990 /\ RH = 3000 /\ ws = 133 -> 617
      [] T = 990 /\ RH = 3000 /\ ws = 134 -> 617
      [] T = 990 /\ RH = 3000 /\ ws = 135 -> 616
      [] T = 990 /\ RH = 3000 /\ ws = 300 -> 501
      [] T = 990 /\ RH = 5000 /\ ws = 100 -> 721
      [] T = 990 /\ RH = 5000 /\ ws = 133 -> 698
      [] T = 990 /\ RH = 5000 /\ ws = 134 -> 697
      [] T = 990 /\ RH = 5000 /\ ws = 135 -> 696
      [] T = 990 /\ RH = 5000 /\ ws = 300 -> 581
      [] T = 990 /\ RH = 9000 /\ ws = 100 -> 882
      [] T = 990 /\ RH = 9000 /\ ws = 133 -> 859
      [] T = 990 /\ RH = 9000 /\ ws = 134 -> 858
      [] T = 990 /\ RH = 9000 /\ ws = 135 -> 857
      [] T = 990 /\ RH = 9000 /\ ws = 300 -> 742
      [] T = 1000 /\ RH = 3000 /\ ws = 100 -> 651
      [] T = 1000 /\ RH = 3000 /\ ws = 133 -> 628
      [] T = 1000 /\ RH = 3000 /\ ws = 134 -> 628
      [] T = 1000 /\ RH = 3000 /\ ws = 135 -> 627
      [] T = 1000 /\ RH = 3000 /\ ws = 300 -> 511
      [] T = 1000 /\ RH = 5000 /\ ws = 100 -> 732
      [] T = 1000 /\ RH = 5000 /\ ws = 133 -> 709
      [] T = 1000 /\ RH = 5000 /\ ws = 134 -> 708
      [] T = 1000 /\ RH = 5000 /\ ws = 135 -> 708
      [] T = 1000 /\ RH = 5000 /\ ws = 300 -> 592
      [] T = 1000 /\ RH = 9000 /\ ws = 100 -> 894
      [] T = 1000 /\ RH = 9000 /\ ws = 133 -> 871
      [] T = 1000 /\ RH = 9000 /\ ws = 134 -> 870
      [] T = 1000 /\ RH = 9000 /\ ws = 135 -> 870
      [] T = 1000 /\ RH = 9000 /\ ws = 300 -> 754
      [] T = 1001 /\ RH = 3000 /\ ws = 100 -> 652
      [] T = 1001 /\ RH = 3000 /\ ws = 133 -> 629
      [] T = 1001 /\ RH = 3000 /\ ws = 134 -> 629
      [] T = 1001 /\ RH = 3000 /\ ws = 135 -> 628
      [] T = 1001 /\ RH = 3000 /\ ws = 300 -> 512
      [] T = 1001 /\ RH = 5000 /\ ws = 100 -> 733
      [] T = 1001 /\ RH = 5000 /\ ws = 133 -> 710
      [] T = 1001 /\ RH = 5000 /\ ws = 134 -> 710
      [] T = 1001 /\ RH = 5000 /\ ws = 135 -> 709
      [] T = 1001 /\ RH = 5000 /\ ws = 300 -> 593
      [] T = 1001 /\ RH = 9000 /\ ws = 100 -> 895
      [] T = 1001 /\ RH = 9000 /\ ws = 133 -> 872
      [] T = 1001 /\ RH = 9000 /\ ws = 134 -> 872
      [] T = 1001 /\ RH = 9000 /\ ws = 135 -> 871
      [] T = 1001 /\ RH = 9000 /\ ws = 300 -> 755
      [] T = 1100 /\ RH = 3000 /\ ws = 100 -> 760
      [] T = 1100 /\ RH = 3000 /\ ws = 133 -> 737
      [] T = 1100 /\ RH = 3000 /\ ws = 134 -> 736
      [] T = 1100 /\ RH = 3000 /\ ws = 135 -> 735
      [] T = 1100 /\ RH = 3000 /\ ws = 300 -> 620
      [] T = 1100 /\ RH = 5000 /\ ws = 100 -> 846
      [] T = 1100 /\ RH = 5000 /\ ws = 133 -> 823
      [] T = 1100 /\ RH = 5000 /\ ws = 134 -> 822
      [] T = 1100 /\ RH = 5000 /\ ws = 135 -> 822
      [] T = 1100 /\ RH = 5000 /\ ws = 300 -> 706
      [] T = 1100 /\ RH = 9000 /\ ws = 100 -> 1019
      [] T = 1100 /\ RH = 9000 /\ ws = 133 -> 996
      [] T = 1100 /\ RH = 9000 /\ ws = 134 -> 995
      [] T = 1100 /\ RH = 9000 /\ ws = 135 -> 995
      [] T = 1100 /\ RH = 9000 /\ ws = 300 -> 879
      [] T = 2700 /\ RH = 3000 /\ ws = 100 -> 2582
      [] T = 2700 /\ RH = 3000 /\ ws = 133 -> 2559
      [] T = 2700 /\ RH = 3000 /\ ws = 134 -> 2558
      [] T = 2700 /\ RH = 3000 /\ ws = 135 -> 2557
      [] T = 2700 /\ RH = 3000 /\ ws = 300 -> 2442
      [] T = 2700 /\ RH = 5000 /\ ws = 100 -> 2816
      [] T = 2700 /\ RH = 5000 /\ ws = 133 -> 2793
      [] T = 2700 /\ RH = 5000 /\ ws = 134 -> 2793
      [] T = 2700 /\ RH = 5000 /\ ws = 135 -> 2792
      [] T = 2700 /\ RH = 5000 /\ ws = 300 -> 2676
      [] T = 2700 /\ RH = 9000 /\ ws = 100 -> 3286
      [] T = 2700 /\ RH = 9000 /\ ws = 133 -> 3262
      [] T = 2700 /\ RH = 9000 /\ ws = 134 -> 3262
      [] T = 2700 /\ RH = 9000 /\ ws = 135 -> 3261
      [] T = 2700 /\ RH = 9000 /\ ws = 300 -> 3146
      [] T = 3100 /\ RH = 100 /\ ws = 0 -> 2715
      [] T = 3100 /\ RH = 100 /\ ws = 300 -> 2505
      [] T = 3100 /\ RH = 100 /\ ws = 7000 -> -2185
      [] T = 3100 /\ RH = 7000 /\ ws = 0 -> 3734
      [] T = 3100 /\ RH = 7000 /\ ws = 300 -> 3524
      [] T = 3100 /\ RH = 7000 /\ ws = 7000 -> -1166
      [] T = 3100 /\ RH = 10000 /\ ws = 0 -> 4177
      [] T = 3100 /\ RH = 10000 /\ ws = 300 -> 3967
      [] T = 3100 /\ RH = 10000 /\ ws = 7000 -> -723
      [] T = 7500 /\ RH = 100 /\ ws = 0 -> 7227
      [] T = 7500 /\ RH = 100 /\ ws = 300 -> 7017
      [] T = 7500 /\ RH = 100 /\ ws = 7000 -> 2327
      [] T = 7500 /\ RH = 7000 /\ ws = 0 -> 15976
      [] T = 7500 /\ RH = 7000 /\ ws = 300 -> 15766
      [] T = 7500 /\ RH = 7000 /\ ws = 7000 -> 11076
      [] T = 7500 /\ RH = 10000 /\ ws = 0 -> 19780
      [] T = 7500 /\ RH = 10000 /\ ws = 300 -> 19570
      [] T = 7500 /\ RH = 10000 /\ ws = 7000 -> 14880

\* clamp(e/es * 100, 1, 100), Magnus formula with a = 17.27, b = 237.7
rhFromTdMagnus(T, Td) ==
    CASE T = -900 /\ Td = 0 -> 10000
      [] T = -900 /\ Td = 2500 -> 10000
      [] T = 500 /\ Td = 0 -> 7006
      [] T = 500 /\ Td = 2500 -> 10000
      [] T = 3100 /\ Td = 0 -> 1364
      [] T = 3100 /\ Td = 2500 -> 7054
      [] T = 7500 /\ Td = 0 -> 159
      [] T = 7500 /\ Td = 2500 -> 822

\* the body of main without the freshness guard
deriveWinNoGuard(row, nowMin) ==
    LET T   == row.ta
        WS  == clamp(IF isFinite(row.ws) THEN row.ws ELSE 0, 0, 7000)
        RH0 == IF ~isFinite(row.hm) /\ isFinite(row.td) /\ isFinite(T)
               THEN rhFromTdMagnus(T, row.td) ELSE row.hm
        RH  == clamp(RH0, 100, 10000)
        ts  == kstTmToUtc(row.tm - TsBase)
    IN  IF ~isFinite(T) \/ ~isFinite(RH) THEN Thrown("insufficient fields")
        ELSE Reading([tC |-> T, rh |-> RH, wMs |-> WS, feels |-> feelsAT(T, RH, WS),
                      ts |-> ts, row |-> row.row])

\* the body of main after fetchLatestASOS returned row: the written point,
\* the stale skip, or the thrown error
deriveWin(row, nowMin) ==
    LET T   == row.ta
        WS  == clamp(IF isFinite(row.ws) THEN row.ws ELSE 0, 0, 7000)
        RH0 == IF ~isFinite(row.hm) /\ isFinite(row.td) /\ isFinite(T)
               THEN rhFromTdMagnus(T, row.td) ELSE row.hm
        RH  == clamp(RH0, 100, 10000)
        ts  == kstTmToUtc(row.tm - TsBase)
    IN  IF ~isFinite(T) \/ ~isFinite(RH) THEN Thrown("insufficient fields")
        ELSE IF nowMin - ts > STALE_MIN THEN [kind |-> "stale"]
        ELSE Reading([tC |-> T, rh |-> RH, wMs |-> WS, feels |-> feelsAT(T, RH, WS),
                      ts |-> ts, row |-> row.row])

\* ------------------------------------------------------------- POP series
\* pop_kmahub_to_influx.ts, fct_afs_dl2 revision.  A cell that is text (the
\* region id) is NaN here: it is not empty and matches no numeric pattern.

\* /^\d+$/.test(p): an unsigned integer numeral (a 12-digit time is one)
isDigits(t) == t # NaN /\ t >= 0 /\ (isTs12(t) \/ isInteger(t))

\* parseInt(p, 10) of such a numeral, in units
parseIntTok(t) == IF isTs12(t) THEN t ELSE t \div 100

PopNames == {"ST", "POP"}
PopTimeNames == {"TMEF", "FTIME", "TIME", "VALID", "FCST"}

\* headerIdx: the first of the leading lines naming POP / ST; <<>> when none
RECURSIVE popHeaderFrom(_, _)
popHeaderFrom(comments, i) ==
    IF i > Len(comments) THEN <<>>
    ELSE IF hasTok(comments[i], PopNames) THEN comments[i]
    ELSE popHeaderFrom(comments, i + 1)

\* <<ok, tot>> of pickTimeColumn for column c: the non-empty cells, and those
\* of 12..14 digits
popTimeFit(rows, c) ==
    << Cardinality({k \in 1..Len(rows) : c < Len(rows[k]) /\ isTs12(Cell(rows[k], c))}),
       Cardinality({k \in 1..Len(rows) : c < Len(rows[k])}) >>

\* <<ok, n>> of pickPopColumn for column c: the integer cells within 0..100
popValueFit(rows, c) ==
    << Cardinality({k \in 1..Len(rows) :
           LET v == Cell(rows[k], c)
           IN  isDigits(v) /\ parseIntTok(v) >= 0 /\ parseIntTok(v) <= 100}),
       Len(rows) >>

\* the first column of the greatest fit (fit > score, from score -1)
RECURSIVE pickColumnFrom(_, _, _, _, _)
pickColumnFrom(rows, byTime, c, best, score) ==
    IF c >= Len(rows[1]) THEN best
    ELSE LET fit == IF byTime THEN popTimeFit(rows, c) ELSE popValueFit(rows, c)
         IN  IF score = <<-1, 1>> \/ fracGt(fit, score)
             THEN pickColumnFrom(rows, byTime, c + 1, c, fit)
             ELSE pickColumnFrom(rows, byTime, c + 1, best, score)

pickTimeColumn(rows) == IF Len(rows) = 0 THEN -1 ELSE pickColumnFrom(rows, TRUE, 0, -1, <<-1, 1>>)

pickPopColumn(rows) == IF Len(rows) = 0 THEN -1 ELSE pickColumnFrom(rows, FALSE, 0, -1, <<-1, 1>>)

\* the {ts, pop} of the rows with a numeric POP and a valid time, a later row
\* of the same ts replacing an earlier one (the Map of the source)
RECURSIVE popDedup(_, _, _, _)
popDedup(rows, k, iPOP, iT) ==
    IF k > Len(rows) THEN {}
    ELSE LET p    == Cell(rows[k], iPOP)
             ts   == parseTs(Cell(rows[k], iT))
             rest == popDedup(rows, k + 1, iPOP, iT)
         IN  IF ~isDigits(p) \/ ts = NaN \/ ts = 0 THEN rest
             ELSE IF \E x \in rest : x.ts = ts THEN rest
             ELSE rest \cup {[ts |-> ts, pop |-> clamp(parseIntTok(p), 0, 100)]}

\* .sort((a, b) => a.ts - b.ts) of entries with distinct ts
RECURSIVE sortByTs(_)
sortByTs(S) ==
    IF S = {} THEN <<>>
    ELSE LET x == CHOOSE y \in S : \A z \in S : y.ts <= z.ts
         IN  <<x>> \o sortByTs(S \ {x})

\* fetchPopSeries after the fetch resolved
fetchPopSeries(r) ==
    IF ~r.ok THEN Thrown("http")
    ELSE LET header == popHeaderFrom(r.comments, 1)
             data   == IF r.commented THEN <<>> ELSE r.rows
             need   == IF Len(header) > 3 THEN Len(header) ELSE 3
             rows   == SelectSeq(data, LAMBDA x : Len(x) >= need)
         IN  IF Len(rows) = 0 THEN Thrown("No data rows")
             ELSE LET nPOP == IF Len(header) > 0 THEN findName(header, PopNames) ELSE -1
                      nT   == IF Len(header) > 0 THEN findName(header, PopTimeNames) ELSE -1
                      iPOP == IF nPOP < 0 THEN pickPopColumn(rows) ELSE nPOP
                      iT   == IF nT < 0 THEN pickTimeColumn(rows) ELSE nT
                      out  == popDedup(rows, 1, iPOP, iT)
                  IN  IF iPOP < 0 THEN Thrown("POP column not found")
                      ELSE IF iT < 0 THEN Thrown("Time column not found")
                      ELSE IF out = {} THEN Thrown("No numeric POP rows with valid time")
                      ELSE [kind |-> "series", rows |-> sortByTs(out)]

\* ------------------------------------------------- POP rows, older script
\* part_007 (source tag kmahub-di2).  The response carries at most one leading
\* line, written without '#'; lines starting with '#' are dropped.

\* looksHeader(s): a cell ST / POP, or a time name anywhere in the line
looksHeader(line) == hasTok(line, PopNames \cup PopTimeNames)

\* the first column whose cells of the first 20 rows are all integers 0..100
RECURSIVE popCandFrom(_, _, _)
popCandFrom(data, c, cols) ==
    IF c >= cols THEN -1
    ELSE IF \A k \in 1..Len(data) :
               LET v == Cell(data[k], c)
               IN  isDigits(v) /\ parseIntTok(v) >= 0 /\ parseIntTok(v) <= 100
         THEN c
    ELSE popCandFrom(data, c + 1, cols)

\* popPct of a cell of digits: values of 1 and less are taken for a 0..1
\* scale and multiplied by 100
popPctOf(rawPop) ==
    LET popInt == parseIntTok(rawPop)
    IN  IF popInt <= 1 THEN popInt * 100 ELSE popInt

\* the {ts, pop} of the rows with a numeric POP; ts is the clock where the
\* row has no time that parses; of rows of one ts the last is kept
RECURSIVE popRowsDedup(_, _, _, _, _)
popRowsDedup(data, k, iPOP, iT, nowMin) ==
    IF k > Len(data) THEN {}
    ELSE LET rawPop == Cell(data[k], iPOP)
             t      == IF iT >= 0 THEN parseTs(Cell(data[k], iT)) ELSE NaN
             ts     == IF t = NaN \/ t = 0 THEN nowMin ELSE t
             rest   == popRowsDedup(data, k + 1, iPOP, iT, nowMin)
         IN  IF ~isDigits(rawPop) THEN rest
             ELSE IF \E x \in rest : x.ts = ts THEN rest
             ELSE rest \cup {[ts |-> ts, pop |-> popPctOf(rawPop)]}

\* fetchPopRows after the fetch resolved.  Without a line that looks like a
\* header the first data line is taken as the header; with no line at all
\* splitCSVLine(undefined) throws.
fetchPopRows(r, nowMin) ==
    IF ~r.ok THEN Thrown("http")
    ELSE LET lines  == IF r.commented THEN <<>> ELSE r.rows
             named  == Len(r.comments) > 0 /\ looksHeader(r.comments[1])
             cols   == IF named THEN Len(r.comments[1])
                       ELSE IF Len(lines) > 0 THEN Len(lines[1]) ELSE 0
             rest   == IF named \/ Len(lines) = 0 THEN lines ELSE Tail(lines)
             data   == SelectSeq(rest, LAMBDA x : Len(x) >= cols)
             nPOP   == IF named THEN findName(r.comments[1], PopNames) ELSE -1
             iPOP   == IF nPOP < 0 THEN popCandFrom(data, 0, cols) ELSE nPOP
             iT     == IF named THEN findName(r.comments[1], PopTimeNames) ELSE -1
         IN  IF ~named /\ Len(lines) = 0 THEN Thrown("TypeError")
             ELSE IF iPOP < 0 THEN Thrown("POP column not found")
             ELSE [kind |-> "series", rows |-> sortByTs(popRowsDedup(data, 1, iPOP, iT, nowMin))]

\* ------------------------------------------------------------- inputs
STN108 == 10800

UvHeader == <<"TM", "STN", "EUV", "UV-B">>
AsosHeader == <<"TM", "STN", "TA", "HM", "WS">>
AsosHeaderTd == <<"TM", "STN", "TA", "HM", "WS", "TD">>

\* (EUV, UV-B index) of a UV row: both missing, EUV only, both present
UVRowVals == {<<-900, -900>>, <<1250, -900>>, <<1250, 300>>}

UVTable(tf, vs) ==
    [i \in 1..Len(vs) |-> <<RowTimeTok(tf, i, Len(vs)), STN108, vs[i][1], vs[i][2]>>]

\* the tables of n rows and fewer in either row order, and the one-row
\* tables whose time column holds HHmm only
UVTables ==
    { UVTable(tf, vs) : tf \in {"asc", "desc"}, vs \in SeqsUpTo(UVRowVals, MaxRows) } \cup
    { UVTable("hhmm", <<v>>) : v \in UVRowVals }

\* tables without header whose time is sent as a date and a time column:
\* one row observed at 23:50 of day 0, or that row and one observed at
\* 00:00 of day 1
UvSplitRow(ddd, hhmm, v) == <<DateTok(ddd), hhmm * 100, STN108, v[1], v[2]>>

UvSplitTables ==
    { << UvSplitRow(0, 2350, v) >> : v \in UVRowVals } \cup
    { << UvSplitRow(0, 2350, v), UvSplitRow(1, 0, v) >> : v \in UVRowVals }

\* an all-stations table: a row of station 108 and a newer row of station 159
UvTwoStations ==
    LET t == UVTable("asc", << <<1250, 300>>, <<1250, 300>> >>)
    IN  <<t[1], <<t[2][1], 15900, 2500, 500>> >>

\* a table of three rows whose newest line lost its last cell
UvMixedTable ==
    LET t == UVTable("asc", << <<1250, 300>>, <<1250, 300>>, <<1250, -900>> >>)
    IN  <<t[1], t[2], SubSeq(t[3], 1, 3)>>

UvMixed == Response(TRUE, TRUE, <<UvHeader>>, UvMixedTable, FALSE)

\* (EUV, UV-B index) at the edges of the conversions: EUV 0.3 (within 0..20
\* under both / 25 and * 40), EUV 600 and 500.5 (above 20 under / 25), and a
\* direct index of 25
UvEdgeVals == {<<30, -900>>, <<60000, -900>>, <<50050, -900>>, <<1250, 2500>>}

\* a response of a status outside 2xx whose body is a table with a valid row
UvErrorBody == Response(TRUE, FALSE, <<UvHeader>>, UVTable("asc", << <<1250, 300>> >>), FALSE)

UVResponses ==
    {NetFail, HttpFail, UvMixed, UvErrorBody} \cup
    { Response(TRUE, TRUE, c, t, FALSE) : c \in {<<>>, <<UvHeader>>}, t \in UVTables } \cup
    { Response(TRUE, TRUE, c, UVTable("asc", <<v>>), FALSE) :
        c \in {<<>>, <<UvHeader>>}, v \in UvEdgeVals } \cup
    { Response(TRUE, TRUE, <<>>, t, FALSE) : t \in UvSplitTables } \cup
    { Response(TRUE, TRUE, c, UvTwoStations, FALSE) : c \in {<<>>, <<UvHeader>>} }

\* with UV_STN = "0" the station test of tryGetUVI passes no row of station
\* 108, whatever else the row holds: one-row tables are all that run needs
UVResponsesAll ==
    {NetFail, HttpFail} \cup
    { Response(TRUE, TRUE, <<UvHeader>>, UVTable("asc", <<v>>), FALSE) : v \in UVRowVals }

UVResponsesOf(stnW) == IF stnW = 0 THEN UVResponsesAll ELSE UVResponses

\* (TA, HM, WS, TD) of an ASOS row, the TD cell sent only in tables of six
\* columns
AsosTable(tf, vs, withTd) ==
    [i \in 1..Len(vs) |->
        <<RowTimeTok(tf, i, Len(vs)), STN108, vs[i][1], vs[i][2], vs[i][3]>>
        \o (IF withTd THEN <<vs[i][4]>> ELSE <<>>)]

AsosCold == <<500, 7000, 300, 0>>
AsosHot  == <<3100, 7000, 300, 2500>>

\* plausible rows: a cold and a hot reading
AsosGoodVals == {AsosCold, AsosHot}

\* the cold row with one field replaced by the sentinel -9 or by a value
\* outside its band (75 degC, 120 %, 80 m/s), and the hot row without humidity
AsosBadVals ==
    { <<b, 7000, 300, 0>> : b \in {-900, 7500} } \cup
    { <<500, b, 300, 0>> : b \in {-900, 12000} } \cup
    { <<500, 7000, b, 0>> : b \in {-900, 8000} } \cup
    { <<3100, -900, 300, 2500>> }

AsosRowVals == AsosGoodVals \cup AsosBadVals

\* rows whose result is more than 12 degC off the temperature: 31 degC at
\* 100 % with a dew point of 25 degC, and 0 degC in a wind of 70 m/s
AsosDeviant == {<<3100, 10000, 300, 2500>>, <<0, 7000, 7000, 0>>}

\* scenario A: the header comment "TM STN TA HM WS" and the data row
\* "202501010000 108 5.0 60 3.0" (day 1 of the epoch stands for 2025-01-01)
ScenarioA ==
    Response(TRUE, TRUE, <<AsosHeader>>, << <<TsTok(10000), STN108, 500, 6000, 300>> >>, FALSE)

\* scenario B: no header, one whitespace-delimited row of 5 columns
\* [202501011500, 108, 31.0, 70, 2.0]
ScenarioB ==
    Response(TRUE, TRUE, <<>>, << <<TsTok(11500), STN108, 3100, 7000, 200>> >>, FALSE)

\* a table of two rows of six cells and a newest row of five
AsosMixedTable ==
    LET t == AsosTable("asc", <<AsosHot, AsosHot, AsosCold>>, TRUE)
    IN  <<t[1], t[2], SubSeq(t[3], 1, 5)>>

AsosMixed == Response(TRUE, TRUE, <<AsosHeader>>, AsosMixedTable, FALSE)

\* the single-tm responses: headed tables of cold rows and rows without
\* humidity, every one-row headed table, and one-row tables without header,
\* sent as comments, and sent as comments with HHmm times
\* a response of a status outside 2xx whose body is a table with a valid row
AsosErrorBody ==
    Response(TRUE, FALSE, <<AsosHeader>>, AsosTable("asc", <<AsosCold>>, FALSE), FALSE)

AsosTmResponses ==
    {NetFail, HttpFail, AsosErrorBody} \cup
    { Response(TRUE, TRUE, <<AsosHeader>>, AsosTable("asc", vs, FALSE), FALSE) :
        vs \in SeqsUpTo({AsosCold, <<500, -900, 300, 0>>}, MaxRows) } \cup
    { Response(TRUE, TRUE, <<AsosHeader>>, AsosTable("asc", <<v>>, FALSE), FALSE) :
        v \in AsosRowVals } \cup
    { Response(TRUE, TRUE, sh[1], AsosTable(sh[2], <<AsosCold>>, FALSE), sh[3]) :
        sh \in {<< <<>>, "asc", FALSE >>, << <<AsosHeader>>, "asc", TRUE >>,
                << <<AsosHeader>>, "hhmm", TRUE >>} } \cup
    {ScenarioA, ScenarioB, AsosMixed}

\* the window responses: tables of five or six columns, with and without
\* header line, in either row order; one-row tables with HHmm times; a table
\* sent as comments
AsosShapes ==
    { << <<>>, FALSE >>, << <<AsosHeader>>, FALSE >>, << <<>>, TRUE >>,
      << <<AsosHeaderTd>>, TRUE >> }

AsosWinResponses ==
    {NetFail, HttpFail, AsosErrorBody} \cup
    { Response(TRUE, TRUE, sh[1], AsosTable(tf, vs, sh[2]), FALSE) :
        sh \in AsosShapes, tf \in {"asc", "desc"}, vs \in SeqsUpTo(AsosRowVals, MaxRows) } \cup
    { Response(TRUE, TRUE, sh[1], AsosTable("hhmm", <<v>>, sh[2]), FALSE) :
        sh \in AsosShapes, v \in AsosGoodVals } \cup
    { Response(TRUE, TRUE, <<AsosHeader>>, AsosTable("asc", <<AsosCold>>, FALSE), TRUE) } \cup
    { Response(TRUE, TRUE, <<AsosHeaderTd>>, AsosTable("asc", <<v>>, TRUE), FALSE) :
        v \in AsosDeviant } \cup
    {ScenarioA, ScenarioB}

\* the back-off responses: the last line alone is read
AsosBackoffResponses ==
    {NetFail, HttpFail, AsosErrorBody} \cup
    { Response(TRUE, TRUE, <<>>, AsosTable("asc", <<v>>, TRUE), FALSE) : v \in AsosRowVals } \cup
    { Response(TRUE, TRUE, <<AsosHeaderTd>>, AsosTable("asc", <<AsosCold>>, TRUE), TRUE) }

\* the POP responses: rows (region, valid time, POP) with and without the
\* header line; valid times inside and a day before the written window; POP
\* 30, 150 and the sentinel -9
PopHeader == <<"REG_ID", "TMEF", "ST">>

PopRowVals == {ObsBaseKst, ObsBaseKst - DAY_MIN} \X {3000, 15000, -900}

PopTable(vs) == [i \in 1..Len(vs) |-> <<NaN, TsTok(fmtYMDHM(vs[i][1])), vs[i][2]>>]

\* a response of a status outside 2xx whose body is a table with a valid row
PopErrorBody ==
    Response(TRUE, FALSE, <<PopHeader>>, PopTable(<< <<ObsBaseKst, 3000>> >>), FALSE)

PopResponses ==
    {NetFail, HttpFail, PopErrorBody} \cup
    { Response(TRUE, TRUE, c, PopTable(vs), FALSE) :
        c \in {<<>>, <<PopHeader>>}, vs \in SeqsUpTo(PopRowVals, MaxRows) }

\* the responses to the older POP script: POP 0, 1, 30 and 150 at one valid
\* time or two
PopPctVals == {ObsBaseKst, ObsBaseKst - DAY_MIN} \X {0, 100, 3000, 15000}

PopRowsResponses ==
    {NetFail, HttpFail, PopErrorBody} \cup
    { Response(TRUE, TRUE, c, PopTable(vs), FALSE) :
        c \in {<<>>, <<PopHeader>>}, vs \in SeqsUpTo(PopPctVals, MaxRows) }

\* the clock of a run: day 1, 03:07 UTC (12:07 KST) or 03:20 UTC (12:20 KST)
Nows == {DAY_MIN + 187, DAY_MIN + 200}

\* the runs: script, clock, configured station
Configs ==
    ({"uv"} \X Nows \X {STN108}) \cup {<<"uv", DAY_MIN + 187, 0>>} \cup
    ({"asos_tm"} \X Nows \X {STN108}) \cup
    ({"asos_win", "asos_ts", "asos_backoff", "pop", "pop_rows"} \X {DAY_MIN + 187} \X {STN108}) \cup
    ({"asos_backoff"} \X {DAY_MIN + 350, DAY_MIN + 351} \X {STN108})

\* ------------------------------------------------------------- main
\* A point of line protocol handed to writeLP: measurement, the source or
\* service tag, the tag keys, the field keys, the value of the index field
\* (uv_idx / feels_c), the success field of a probe (-1 on other points), and
\* the timestamp.  The sink takes every write.
Point(m, src, tags, fields, val, success, ts) ==
    [m |-> m, src |-> src, tags |-> tags, fields |-> fields, val |-> val,
     success |-> success, ts |-> ts]

\* `api_probe,service=..,env=prod,loc=.. success=..i[,latency_ms=..i] <now>`
probe(service, success, fields) ==
    Point("api_probe", service, {"service", "env", "loc"}, fields, 0, success, now)

\* main of uv_to_influx.ts: the two lines of a reading; a rejection of the
\* async body goes to .catch: console.error, process.exit(1)
mainUV(out) ==
    IF out.kind = "reading"
    THEN [ lines |-> << Point("life_index", "kmahub-uv", {"source", "loc", "stn"},
                              {"uv_idx"}, out.uv, -1, out.ts),
                        probe("uv_obs", 1, {"success", "latency_ms"}) >>,
           code  |-> 0 ]
    ELSE [ lines |-> <<>>, code |-> 1 ]

\* main of the kma_sfctm2 revision, of part_003 and of part_002
mainASOS(out) ==
    IF out.kind = "reading"
    THEN [ lines |-> << Point("life_index", "kmahub-asos", {"source", "loc", "stn"},
                              {"feels_c", "temp_c", "rh_pct", "wind_ms"}, out.feels, -1, out.ts),
                        probe("asos_feels", 1, {"success", "latency_ms"}) >>,
           code  |-> 0 ]
    ELSE [ lines |-> <<>>, code |-> 1 ]

\* main of the kma_sfctm3 revision: the freshness guard writes the failure
\* probe and returns; the catch writes a failure probe and exits with 1
mainBackoff(out) ==
    IF out.kind = "reading"
    THEN [ lines |-> << Point("life_index", "kmahub-asos", {"source", "loc", "stn"},
                              {"feels_c", "temp_c", "rh_pct", "wind_ms"}, out.feels, -1, out.ts),
                        probe("asos_feels", 1, {"success", "latency_ms"}) >>,
           code  |-> 0 ]
    ELSE IF out.kind = "stale"
    THEN [ lines |-> << probe("asos_feels", 0, {"success", "latency_ms"}) >>, code |-> 0 ]
    ELSE [ lines |-> << probe("asos_feels", 0, {"success"}) >>, code |-> 1 ]

\* the pop points of the rows within now - 12 h .. now + 72 h
popLines(rows) ==
    LET inWin == SelectSeq(rows, LAMBDA x : x.ts >= now - 12 * 60 /\ x.ts <= now + 72 * 60)
    IN  [i \in 1..Len(inWin) |->
            Point("pop", "kmahub-dl2", {"source", "loc", "reg"}, {"pop_pct"},
                  inWin[i].pop, -1, inWin[i].ts)]

\* main of the fct_afs_dl2 revision: the points and the success probe; any
\* error inside the try writes the failure probe alone and ends with
\* process.exit(0)
mainPop(out) ==
    IF out.kind = "series" /\ Len(popLines(out.rows)) > 0
    THEN [ lines |-> Append(popLines(out.rows), probe("pop_kmahub", 1, {"success", "latency_ms"})),
           code  |-> 0 ]
    ELSE [ lines |-> << probe("pop_kmahub", 0, {"success", "latency_ms"}) >>, code |-> 0 ]

\* main of part_007: a point of every row and the success probe; no rows, or
\* a rejection, goes to .catch: console.error, process.exit(1)
mainPopRows(out) ==
    IF out.kind = "series" /\ Len(out.rows) > 0
    THEN [ lines |-> [i \in 1..Len(out.rows) |->
                        Point("pop", "kmahub-di2", {"source", "loc", "reg"}, {"pop_pct"},
                              out.rows[i].pop, -1, out.rows[i].ts)]
                     \o << probe("pop_kmahub", 1, {"success", "latency_ms"}) >>,
           code  |-> 0 ]
    ELSE [ lines |-> <<>>, code |-> 1 ]

\* what main makes of the outcome of the fetch, and how the process ends
mainOf(out) ==
    IF script = "uv" THEN mainUV(out)
    ELSE IF script = "pop" THEN mainPop(out)
    ELSE IF script = "pop_rows" THEN mainPopRows(out)
    ELSE IF script = "asos_backoff" THEN mainBackoff(out)
    ELSE mainASOS(out)

mainEnds(out) ==
    /\ written' = mainOf(out).lines
    /\ exitCode' = mainOf(out).code

\* ------------------------------------------------------------- the run

InitOf(cs) ==
    /\ \E c \in cs : script = c[1] /\ now = c[2] /\ stnWanted = c[3]
    /\ pc = "run"
    /\ pos = <<0, 0, 0>>
    /\ reqs = <<>>
    /\ lastOut = "none"
    /\ lastErr = "none"
    /\ resp = None
    /\ result = None
    /\ now2 = 0
    /\ result2 = None
    /\ written = <<>>
    /\ exitCode = -1

Init == InitOf(Configs)

\* the loops nested the other way round: the url loop outside the tm loop
advanceTmInnermost(p, nS, nT, nV) ==
    IF p[2] + 1 < nT THEN <<p[1], p[2] + 1, p[3]>>
    ELSE IF p[3] + 1 < nV THEN <<p[1], 0, p[3] + 1>>
    ELSE <<p[1] + 1, 0, 0>>

\* the loop indices after one more iteration of the innermost loop, for loops
\* of nS x nT x nV iterations; <<nS, 0, 0>> once all loops are left
advance(p, nS, nT, nV) ==
    IF p[3] + 1 < nV THEN <<p[1], p[2], p[3] + 1>>
    ELSE IF p[2] + 1 < nT THEN <<p[1], p[2] + 1, 0>>
    ELSE <<p[1] + 1, 0, 0>>

\* the request fetchLatestUV issues at loop indices p
uvRequest(p) ==
    [ stn  |-> stnList(stnWanted)[p[1] + 1],
      tm   |-> tmCandidates10m(now, UV_BACKSTEPS)[p[2] + 1],
      disp |-> uvUrls[p[3] + 1].disp,
      help |-> uvUrls[p[3] + 1].help ]

\* a failed attempt: remember the error, go on with the next url / tm / stn,
\* and throw lastErr once the loops are left
Continue(why, r, req, nS, nT, nV) ==
    LET p == advance(pos, nS, nT, nV)
    IN  /\ reqs' = Append(reqs, req)
        /\ resp' = r
        /\ lastOut' = why
        /\ lastErr' = why
        /\ pos' = p
        /\ IF p[1] >= nS
           THEN pc' = "done" /\ result' = Thrown(why) /\ mainEnds(Thrown(why))
           ELSE pc' = "run" /\ result' = result /\ UNCHANGED <<written, exitCode>>
        /\ UNCHANGED <<script, now, stnWanted, now2, result2>>

\* an attempt whose response is taken: fetchLatest* returns, the run ends with
\* what is made of it
Return(out, r, req) ==
    /\ reqs' = Append(reqs, req)
    /\ resp' = r
    /\ lastOut' = IF out.kind = "reading" THEN "accept" ELSE out.kind
    /\ pc' = "done"
    /\ result' = out
    /\ mainEnds(out)
    /\ UNCHANGED <<script, now, stnWanted, pos, lastErr, now2, result2>>

\* await fetch(url) rejects (network failure): no try/catch in fetchLatest* or
\* tryFetchOne, so the exception leaves the retry loop
FetchRejects(r, req) ==
    /\ reqs' = Append(reqs, req)
    /\ resp' = r
    /\ lastOut' = "netfail"
    /\ pc' = "done"
    /\ result' = Thrown("network")
    /\ mainEnds(Thrown("network"))
    /\ UNCHANGED <<script, now, stnWanted, pos, lastErr, now2, result2>>

\* one iteration of the url loop of fetchLatestUV
UVAttempt ==
    /\ script = "uv" /\ pc = "run"
    /\ \E r \in UVResponsesOf(stnWanted) :
         LET req == uvRequest(pos)
             out == uvParse(r, req.stn, stnWanted, now)
         IN  IF ~r.net THEN FetchRejects(r, req)
             ELSE IF out.kind = "reading" THEN Return(out, r, req)
             ELSE Continue(out.why, r, req, Len(stnList(stnWanted)),
                           Len(tmCandidates10m(now, UV_BACKSTEPS)), Len(uvUrls))

\* the request fetchLatestASOS issues (through tryFetchOne) at loop indices p
asosRequest(p) ==
    [ stn  |-> stnWanted,
      tm   |-> tm10Candidates(now, ASOS_HOURS)[p[2] + 1],
      disp |-> asosVariants[p[3] + 1].disp,
      help |-> asosVariants[p[3] + 1].help ]

\* one iteration of the variant loop of fetchLatestASOS
ASOSAttempt ==
    /\ script = "asos_tm" /\ pc = "run"
    /\ \E r \in AsosTmResponses :
         LET req == asosRequest(pos)
             out == tryFetchOne(r, req.tm)
         IN  IF ~r.net THEN FetchRejects(r, req)
             ELSE IF out.kind = "reading" THEN Return(out, r, req)
             ELSE Continue(out.why, r, req, 1,
                           Len(tm10Candidates(now, ASOS_HOURS)), Len(asosVariants))

\* ymdhmKST(dUTC) of part_003 / part_002
ymdhmKST(m) == fmtYMDHM(m + KST_MIN)

\* the one request of part_003 / part_002: the last three hours, disp=1, help=1
winRequest ==
    [ stn |-> stnWanted, tm1 |-> ymdhmKST(now - 180), tm2 |-> ymdhmKST(now),
      disp |-> 1, help |-> 1 ]

\* a run of one request: what fetchLatestASOS returns or throws ends the run
Once(out, r, req) ==
    /\ reqs' = Append(reqs, req)
    /\ resp' = r
    /\ lastOut' = IF ~r.net THEN "netfail" ELSE IF out.kind = "reading" THEN "accept" ELSE out.err
    /\ pc' = "done"
    /\ result' = IF ~r.net THEN Thrown("network") ELSE out
    /\ mainEnds(IF ~r.net THEN Thrown("network") ELSE out)
    /\ UNCHANGED <<script, now, stnWanted, pos, lastErr, now2, result2>>

\* part_003: fetch, resolve the columns, scan from the last row
StatFetch ==
    /\ script = "asos_win" /\ pc = "run"
    /\ \E r \in AsosWinResponses : Once(fetchLatestASOS_stat(r, now), r, winRequest)

\* part_002: fetch, resolve the columns, take the row of the greatest time
TsFetch ==
    /\ script = "asos_ts" /\ pc = "run"
    /\ \E r \in AsosWinResponses : Once(fetchLatestASOS_ts(r), r, winRequest)

\* the request of the i-th window of the kma_sfctm3 revision
backoffRequest(p) ==
    [ stn |-> stnWanted, tm1 |-> windowAt(now, p[2]).tm1, tm2 |-> windowAt(now, p[2]).tm2,
      help |-> 0 ]

\* one iteration of the window loop of the kma_sfctm3 revision, and, when a
\* row came back, the rest of main; the status of the response is not read
BackoffAttempt ==
    /\ script = "asos_backoff" /\ pc = "run"
    /\ \E r \in AsosBackoffResponses :
         LET req == backoffRequest(pos)
             row == parseAsosLinesToLatest(r, AsosCols)
         IN  IF ~r.net THEN FetchRejects(r, req)
             ELSE IF row.kind = "row" THEN Return(deriveWin(row, now), r, req)
             ELSE Continue("no data rows", r, req, 1, WIN_TRIES, 1)

\* the one request of fetchPopSeries
popRequest == [ reg |-> stnWanted, tmfc |-> 0, disp |-> 1, help |-> 1 ]

\* the fct_afs_dl2 revision: fetch the series, write what main makes of it
PopFetch ==
    /\ script = "pop" /\ pc = "run"
    /\ \E r \in PopResponses :
         LET out == IF ~r.net THEN Thrown("network") ELSE fetchPopSeries(r)
         IN  /\ reqs' = Append(reqs, popRequest)
             /\ resp' = r
             /\ lastOut' = IF ~r.net THEN "netfail"
                           ELSE IF out.kind = "series" THEN "series" ELSE out.err
             /\ pc' = "done"
             /\ result' = out
             /\ mainEnds(out)
             /\ UNCHANGED <<script, now, stnWanted, pos, lastErr, now2, result2>>

\* part_007: fetch the rows, write what main makes of them
PopRowsFetch ==
    /\ script = "pop_rows" /\ pc = "run"
    /\ \E r \in PopRowsResponses :
         LET out == IF ~r.net THEN Thrown("network") ELSE fetchPopRows(r, now)
         IN  /\ reqs' = Append(reqs, popRequest)
             /\ resp' = r
             /\ lastOut' = IF ~r.net THEN "netfail"
                           ELSE IF out.kind = "series" THEN "series" ELSE out.err
             /\ pc' = "done"
             /\ result' = out
             /\ mainEnds(out)
             /\ UNCHANGED <<script, now, stnWanted, pos, lastErr, now2, result2>>

Next ==
    \/ UVAttempt
    \/ ASOSAttempt
    \/ StatFetch
    \/ TsFetch
    \/ BackoffAttempt
    \/ PopFetch
    \/ PopRowsFetch

Spec == Init /\ [][Next]_vars

\* one run of each retry driver; every request settles (fetch resolves or
\* rejects), the loop body never blocks
FairConfigs == {<<"uv", DAY_MIN + 187, 0>>, <<"asos_tm", DAY_MIN + 187, STN108>>}

NextRetry ==
    \/ UVAttempt
    \/ ASOSAttempt

SpecFair == InitOf(FairConfigs) /\ [][NextRetry]_vars /\ WF_vars(NextRetry)

\* ------------------------------------------------------------- the pipeline, twice
\* normalize - resolve - select - derive of one response, run at the clock of
\* the first run and again at a later clock

\* the later clocks: the same instant, a minute and an hour after
Clocks2 == {DAY_MIN + 187, DAY_MIN + 188, DAY_MIN + 247}

pipeline(r, nowMin) ==
    IF script = "uv" THEN uvParse(r, stnWanted, stnWanted, nowMin)
    ELSE fetchLatestASOS_stat(r, nowMin)

InitPipe ==
    /\ script \in {"uv", "asos_win"}
    /\ now = DAY_MIN + 187
    /\ stnWanted = STN108
    /\ pc = "pipe"
    /\ pos = <<0, 0, 0>>
    /\ reqs = <<>>
    /\ lastOut = "none"
    /\ lastErr = "none"
    /\ resp \in {r \in (IF script = "uv" THEN UVResponses ELSE AsosWinResponses) : r.net /\ r.ok}
    /\ result = None
    /\ now2 = 0
    /\ result2 = None
    /\ written = <<>>
    /\ exitCode = -1

Pipe1 ==
    /\ pc = "pipe"
    /\ result' = pipeline(resp, now)
    /\ pc' = "pipe2"
    /\ UNCHANGED <<script, now, stnWanted, pos, reqs, lastOut, lastErr, resp, now2, result2,
                   written, exitCode>>

Pipe2 ==
    /\ pc = "pipe2"
    /\ \E n \in Clocks2 : now2' = n /\ result2' = pipeline(resp, n)
    /\ pc' = "done"
    /\ UNCHANGED <<script, now, stnWanted, pos, reqs, lastOut, lastErr, resp, result,
                   written, exitCode>>

NextPipe ==
    \/ Pipe1
    \/ Pipe2

SpecPipe == InitPipe /\ [][NextPipe]_vars

\* ------------------------------------------------------------- the regime boundary
\* the feels-like selection of tryFetchOne and chooseFeels of part_001 on one
\* (tC, rh, wind) triple around 10 degC and 1.34 m/s

\* heatIndexC of part_001: the regression with the low-humidity (R < 13) and
\* high-humidity (R > 85, 80 <= T <= 87 degF) adjustments
heatIndexAdjC(tC, rh) ==
    CASE tC = 2700 /\ rh = 5000 -> 2742
      [] tC = 2700 /\ rh = 9000 -> 3109

\* windChillC of part_001: the formula without guard
windChillNoGuard(tC, windMs) == windChillFormula(tC, windMs)

\* apparentTempC of part_001: the expression of feelsAT
apparentTempC(tC, rh, windMs) == feelsAT(tC, rh, windMs)

\* chooseFeels(tC, rh, windMs) of part_001
chooseFeels(tC, rh, windMs) ==
    IF tC >= 2700 /\ rh >= 4000 THEN [method |-> "hi", value |-> heatIndexAdjC(tC, rh)]
    ELSE IF tC <= 1000 /\ windMs >= 134 THEN [method |-> "wc", value |-> windChillNoGuard(tC, windMs)]
    ELSE [method |-> "at", value |-> apparentTempC(tC, rh, windMs)]

FeelsTemps == {500, 990, 1000, 1001, 1100, 2700}
FeelsHums  == {3000, 5000, 9000}
FeelsWinds == {100, 133, 134, 135, 300}

InitFeels ==
    /\ script = "feels"
    /\ now = DAY_MIN + 187
    /\ stnWanted = STN108
    /\ pc = "feels"
    /\ pos = <<0, 0, 0>>
    /\ reqs = <<>>
    /\ lastOut = "none"
    /\ lastErr = "none"
    /\ resp \in [tC : FeelsTemps, rh : FeelsHums, wMs : FeelsWinds]
    /\ result = None
    /\ now2 = 0
    /\ result2 = None
    /\ written = <<>>
    /\ exitCode = -1

\* the feels-like expression of tryFetchOne
FeelsOfReading ==
    /\ pc = "feels"
    /\ result' = [ method |-> feelsRegime(resp.tC, resp.rh, resp.wMs),
                   value  |-> feelsOf(resp.tC, resp.rh, resp.wMs) ]
    /\ pc' = "feels2"
    /\ UNCHANGED <<script, now, stnWanted, pos, reqs, lastOut, lastErr, resp, now2, result2,
                   written, exitCode>>

ChooseFeels ==
    /\ pc = "feels2"
    /\ result2' = chooseFeels(resp.tC, resp.rh, resp.wMs)
    /\ pc' = "done"
    /\ UNCHANGED <<script, now, stnWanted, pos, reqs, lastOut, lastErr, resp, result, now2,
                   written, exitCode>>

NextFeels ==
    \/ FeelsOfReading
    \/ ChooseFeels

SpecFeels == InitFeels /\ [][NextFeels]_vars

\* ------------------------------------------------------------- the time candidates
\* the three generators of time-candidates applied to one clock

\* Array.from(new Set(out)): the first occurrence of each element, in order
RECURSIVE uniqFrom(_, _)
uniqFrom(s, i) ==
    IF i > Len(s) THEN <<>>
    ELSE IF \E j \in 1..(i - 1) : s[j] = s[i] THEN uniqFrom(s, i + 1)
    ELSE <<s[i]>> \o uniqFrom(s, i + 1)

\* tmCandidates(minutesBack) of the second revision of uv_to_influx.ts:
\* now + 9 h, minutes floored to 10, formatted by the UTC getters
tmCandidates(nowMin, minutesBack) ==
    LET kst  == nowMin + KST_MIN
        base == kst - ((kst % 60) % STEP_MIN)
    IN  uniqFrom([i \in 1..(minutesBack \div STEP_MIN + 1) |-> fmtYMDHM(base - (i - 1) * STEP_MIN)], 1)

\* the clocks: every 10-minute boundary of a day, and 7 minutes past each
CandNows == {DAY_MIN + STEP_MIN * k + j : k \in 0..(DAY_MIN \div STEP_MIN - 1), j \in {0, 7}}

InitCand ==
    /\ script = "cand"
    /\ now \in CandNows
    /\ stnWanted = STN108
    /\ pc = "cand"
    /\ pos = <<0, 0, 0>>
    /\ reqs = <<>>
    /\ lastOut = "none"
    /\ lastErr = "none"
    /\ resp = None
    /\ result = [uv10m |-> <<>>, uv |-> <<>>, asos |-> <<>>]
    /\ now2 = 0
    /\ result2 = None
    /\ written = <<>>
    /\ exitCode = -1

\* const tms = tmCandidates10m(36) of fetchLatestUV, first revision
CandUV10m ==
    /\ pc = "cand" /\ result.uv10m = <<>>
    /\ result' = [result EXCEPT !.uv10m = tmCandidates10m(now, UV_BACKSTEPS)]
    /\ UNCHANGED <<script, now, stnWanted, pc, pos, reqs, lastOut, lastErr, resp, now2, result2,
                   written, exitCode>>

\* const tms = tmCandidates(180) of fetchLatestUV, second revision
CandUV ==
    /\ pc = "cand" /\ result.uv = <<>>
    /\ result' = [result EXCEPT !.uv = tmCandidates(now, 180)]
    /\ UNCHANGED <<script, now, stnWanted, pc, pos, reqs, lastOut, lastErr, resp, now2, result2,
                   written, exitCode>>

\* const tms = tm10Candidates(3) of fetchLatestASOS
CandASOS ==
    /\ pc = "cand" /\ result.asos = <<>>
    /\ result' = [result EXCEPT !.asos = tm10Candidates(now, ASOS_HOURS)]
    /\ UNCHANGED <<script, now, stnWanted, pc, pos, reqs, lastOut, lastErr, resp, now2, result2,
                   written, exitCode>>

NextCand ==
    \/ CandUV10m
    \/ CandUV
    \/ CandASOS

SpecCand == InitCand /\ [][NextCand]_vars

\* ------------------------------------------------------------- claims
LastReq == reqs[Len(reqs)]

NewestFirst(tms) == \A i, j \in 1..Len(tms) : i < j => tms[i] > tms[j]

\* the k-th attempt of the stated priority order of the UV driver: wanted
\* station before stn=0, then time-candidates newest first, then help=0
\* before help=1
uvPriority(k) ==
    LET tms == tmCandidates10m(now, UV_BACKSTEPS)
    IN  [ stn  |-> IF k <= 72 THEN stnWanted ELSE 0,
          tm   |-> tms[(((k - 1) \div 2) % 36) + 1],
          disp |-> (k - 1) % 2,
          help |-> (k - 1) % 2 ]

\* the k-th attempt of the stated priority order of the ASOS driver:
\* time-candidates newest first, then (disp,help) = (0,0),(1,1),(1,0),(0,1)
asosPriority(k) ==
    LET tms == tm10Candidates(now, ASOS_HOURS)
    IN  [ stn  |-> stnWanted,
          tm   |-> tms[(k - 1) \div 4 + 1],
          disp |-> <<0, 1, 1, 0>>[((k - 1) % 4) + 1],
          help |-> <<0, 1, 0, 1>>[((k - 1) % 4) + 1] ]

\* the reading the pipeline of the running script makes of the last response
readingOfLast ==
    IF script = "uv" THEN uvParse(resp, LastReq.stn, stnWanted, now)
    ELSE tryFetchOne(resp, LastReq.tm)

C1_Ordered ==
    /\ script = "uv" =>
         /\ NewestFirst(tmCandidates10m(now, UV_BACKSTEPS))
         /\ \A k \in 1..Len(reqs) : reqs[k] = uvPriority(k)
    /\ script = "asos_tm" =>
         /\ NewestFirst(tm10Candidates(now, ASOS_HOURS))
         /\ \A k \in 1..Len(reqs) : reqs[k] = asosPriority(k)

C1_FirstAccepted ==
    script \in {"uv", "asos_tm"} =>
      /\ lastOut = "accept" => pc = "done" /\ result = readingOfLast
      /\ pc = "done" /\ result.kind = "reading" => lastOut = "accept"
      /\ pc = "run" /\ Len(reqs) > 0 => readingOfLast.kind = "fail"

C1_Step ==
    script \in {"uv", "asos_tm"} =>
      /\ Len(reqs') = Len(reqs) + 1
      /\ SubSeq(reqs', 1, Len(reqs)) = reqs
      /\ pc = "run"

\* C1: the retry drivers fetchLatestUV and fetchLatestASOS issue their
\* attempts one at a time in the fixed priority order (the requests issued so
\* far are a prefix of that order), the run returns the reading of the first
\* attempt whose response is accepted, and no request follows that attempt.
C1_PriorityOrder == []C1_Ordered /\ []C1_FirstAccepted /\ [][C1_Step]_vars

\* an accepted reading after earlier attempts of both stations failed
C1_Witness ==
    /\ script = "uv" /\ pc = "done" /\ result.kind = "reading"
    /\ Len(reqs) > 72 /\ reqs[Len(reqs)].stn = 0 /\ reqs[1].stn = STN108

\* C2: a transport error on one attempt (non-2xx status or network failure)
\* never ends the run by itself: when the run has ended with an error, every
\* attempt of the priority order has been tried.
C2_TransportErrorRetried ==
    script \in {"uv", "asos_tm"} /\ pc = "done" /\ result.kind = "thrown" =>
        Len(reqs) = IF script = "uv" THEN 144 ELSE 76

\* the first request of a run rejects and the run ends with one request made
C2_NetworkFailureEndsRun ==
    script = "asos_tm" /\ pc = "done" /\ lastOut = "netfail" /\ Len(reqs) = 1

RequestCap == IF script = "uv" THEN 2 * 36 * 2 ELSE 19 * 4

WithinCap == Len(reqs) <= RequestCap

Terminated ==
    /\ pc = "done"
    /\ result.kind \in {"reading", "thrown"}
    /\ Len(reqs) <= RequestCap

\* C3: every run of a retry driver terminates, with an accepted reading or a
\* terminal error, after at most 2 x 36 x 2 (UV) or 19 x 4 (ASOS) requests.
C3_Terminates == []WithinCap /\ <>Terminated

\* a run that used the whole cap and ended with the terminal error
C3_Witness ==
    pc = "done" /\ result.kind = "thrown" /\ Len(reqs) = RequestCap /\ lastOut # "netfail"

\* ----- the layout of the modelled tables, as the responses are built
Present(v) == v # NaN /\ v > SENTINEL_MAX

Headed(r, h) == r.net /\ r.ok /\ ~r.commented /\ r.comments = <<h>> /\ Len(r.rows) > 0

FullTimes(r) == \A k \in 1..Len(r.rows) : isTs12(r.rows[k][1])

ObsTime(row) == parseTs(row[1])

Accepted == pc = "done" /\ result.kind = "reading"

SelectedRow == resp.rows[result.row]

\* a row of an ASOS table with every required field present and in its band
AsosInBand(row) ==
    /\ Present(row[3]) /\ row[3] >= -6000 /\ row[3] <= 6000
    /\ Present(row[4]) /\ row[4] >= 0 /\ row[4] <= 10000
    /\ Present(row[5]) /\ row[5] >= 0 /\ row[5] <= 6000

\* what part_003 asks of a row of a five-column headed table: temperature
\* and wind present, humidity present and within 0..100
AsosPassStat(row) ==
    Present(row[3]) /\ Present(row[5]) /\ Present(row[4]) /\ row[4] >= 0 /\ row[4] <= 10000

\* a row of a headed UV table with a usable UV-B value or an EUV value within
\* 0..500 (0..20 after / 25), of the wanted station when all stations were
\* asked for
UvPass(row) ==
    /\ \/ Present(Cell(row, 3)) /\ Cell(row, 3) >= 0
       \/ Present(Cell(row, 2)) /\ Cell(row, 2) >= 0 /\ Cell(row, 2) <= 50000
    /\ LastReq.stn = 0 => row[2] = stnWanted

\* C4: a row whose temperature, humidity or wind-speed cell holds a missing
\* value sentinel (<= -8.9) is never the row a reading is made of, in
\* tryFetchOne, parseAsosLinesToLatest and fetchLatestASOS of part_003.
C4_SentinelRowNeverSelected ==
    script \in {"asos_tm", "asos_backoff", "asos_win"} /\ Accepted /\ ~resp.commented =>
        \A c \in 3..5 : SelectedRow[c] > SENTINEL_MAX

\* the kma_sfctm3 revision writes the sentinel as the temperature
C4_SentinelWritten ==
    script = "asos_backoff" /\ Accepted /\ result.tC = -900 /\ SelectedRow[3] = -900

\* the columns resolved for the response of the run
resolvedColumns ==
    IF script = "asos_win" THEN columnsStat(resp.comments, rowsGe5(resp.rows))
    ELSE columnsTs(resp.comments, rowsGe5(resp.rows))

\* the resolution is accepted: the required columns are found
resolutionAccepted ==
    /\ script \in {"asos_win", "asos_ts"} /\ pc = "done"
    /\ resp.net /\ resp.ok /\ ~resp.commented /\ Len(resp.rows) > 0
    /\ resolvedColumns.iTA >= 0 /\ resolvedColumns.iWS >= 0
    /\ script = "asos_ts" => resolvedColumns.iTM >= 0

ColumnFields == {"iTM", "iTA", "iHM", "iWS", "iTD"}

\* C5: in every accepted column resolution (part_003, part_002) the indices
\* resolved for time, temperature, humidity, wind speed and dew point are
\* pairwise distinct.
C5_ColumnsDistinct ==
    resolutionAccepted =>
        \A f, g \in ColumnFields :
            f # g /\ resolvedColumns[f] >= 0 /\ resolvedColumns[g] >= 0
                => resolvedColumns[f] # resolvedColumns[g]

\* temperature and wind speed read from one column
C5_SharedColumn ==
    resolutionAccepted /\ Accepted /\ resolvedColumns.iTA = resolvedColumns.iWS

\* the rows after row k are skipped, and row k passes
SkippedDownTo(k, pass(_)) ==
    /\ pass(resp.rows[k])
    /\ \A j \in (k + 1)..Len(resp.rows) : ~pass(resp.rows[j])

\* part_003 and fetchLatestUV on a headed table: a failing row alone is
\* skipped, and the attempt fails only when no row passes
C6_RowSkipped ==
    /\ script = "asos_win" /\ pc = "done" /\ Headed(resp, AsosHeader) =>
         /\ result.kind = "thrown" <=> \A k \in 1..Len(resp.rows) : ~AsosPassStat(resp.rows[k])
         /\ result.kind = "reading" => SkippedDownTo(result.row, AsosPassStat)
    /\ script = "uv" /\ lastOut \in {"accept", "novalid"} /\ Headed(resp, UvHeader) =>
         /\ lastOut = "novalid" <=> \A k \in 1..Len(resp.rows) : ~UvPass(resp.rows[k])
         /\ lastOut = "accept" => SkippedDownTo(result.row, UvPass)

C6_OlderRowPasses ==
    /\ script = "asos_tm" /\ lastOut = "badRH" /\ Headed(resp, AsosHeader)
    /\ Len(resp.rows) = 2 /\ AsosInBand(resp.rows[1])

C7_MostRecentSelected ==
    /\ script = "asos_win" /\ Accepted /\ Headed(resp, AsosHeader) /\ FullTimes(resp) =>
         \A k \in 1..Len(resp.rows) :
             AsosPassStat(resp.rows[k]) => ObsTime(resp.rows[k]) <= ObsTime(SelectedRow)
    /\ script = "uv" /\ Accepted /\ Headed(resp, UvHeader) /\ FullTimes(resp) =>
         \A k \in 1..Len(resp.rows) :
             UvPass(resp.rows[k]) => ObsTime(resp.rows[k]) <= ObsTime(SelectedRow)

\* of two passing rows sent newest first the older one is selected
C7_OlderSelected ==
    /\ script = "uv" /\ Accepted /\ Headed(resp, UvHeader) /\ Len(resp.rows) = 2
    /\ UvPass(resp.rows[1]) /\ ObsTime(resp.rows[1]) > ObsTime(resp.rows[2])
    /\ result.row = 2

\* C8: every reading the ASOS row selector returns (tryFetchOne, part_003,
\* part_002) has a temperature in -60..60 degC, a humidity in 0..100 % and a
\* wind speed in 0..60 m/s, and is made of a row with these fields in band.
C8_ReadingInBands ==
    script \in {"asos_tm", "asos_win", "asos_ts"} /\ Accepted =>
        /\ isFinite(result.tC) /\ result.tC >= -6000 /\ result.tC <= 6000
        /\ isFinite(result.rh) /\ result.rh >= 0 /\ result.rh <= 10000
        /\ isFinite(result.wMs) /\ result.wMs >= 0 /\ result.wMs <= 6000
        /\ Headed(resp, AsosHeader) => AsosInBand(SelectedRow)

\* part_003 returns 75 degC read by header name
C8_HotReading ==
    script = "asos_win" /\ Accepted /\ Headed(resp, AsosHeader) /\ result.tC = 7500

\* a reading with the timestamp set aside
WithoutTs(x) == IF x.kind = "reading" THEN [x EXCEPT !.ts = 0] ELSE x

SplitTime(row) == isDate8(row[1]) /\ isHHmm4(row[2])

C10_ColdBoundary ==
    script = "feels" /\ pc = "done" /\ resp.wMs > 134 =>
        /\ resp.tC = 1000 => result.method = "wc" /\ result2.method = "wc"
        /\ resp.tC > 1000 => result.method # "wc" /\ result2.method # "wc"
        /\ result.method = "wc" <=> ~windChillGuard(resp.tC, resp.wMs)
        /\ result.method = "wc" => result.value = windChillFormula(resp.tC, resp.wMs)

\* the wind chill selected at 10.0 degC and 1.35 m/s
C10_Witness ==
    /\ script = "feels" /\ pc = "done" /\ resp.tC = 1000 /\ resp.wMs = 135
    /\ result.method = "wc" /\ result2.method = "wc" /\ result.value # resp.tC

\* the rows and the column indices of the UV attempt that read resp
uvRowsOfLast == uvRows(resp.rows)

uvIndicesOfLast == uvIndices(resp.comments, uvRowsOfLast, LastReq.stn)

uvParsed ==
    script = "uv" /\ Len(reqs) > 0 /\ resp.net /\ resp.ok /\ Len(uvRowsOfLast) > 0

\* a row with a usable direct UV index (column resolved, value present and
\* non-negative) and an EUV value
UvBoth(row) ==
    /\ uvIndicesOfLast.idxUVB_index >= 0 /\ uvIndicesOfLast.idxEUV >= 0
    /\ Present(Cell(row, uvIndicesOfLast.idxUVB_index))
    /\ Cell(row, uvIndicesOfLast.idxUVB_index) >= 0
    /\ Present(Cell(row, uvIndicesOfLast.idxEUV))

\* the row is not one the all-stations filter of tryGetUVI drops
UvStationPasses(row) == LastReq.stn # 0 \/ Cell(row, uvIndicesOfLast.iStn) = stnWanted

C12_MethodTagged ==
    script = "uv" /\ Accepted =>
        /\ Len(written) = 2
        /\ written[1].m = "life_index" /\ written[1].val = result.uv
        /\ "method" \in written[1].tags
        /\ UvBoth(uvRowsOfLast[result.row]) \/ Cell(uvRowsOfLast[result.row], 2) # 1250
             \/ written[1].val = 5000

\* EUV 12.5 accepted as 0.5 by EUV/25 and written without a method tag
C12_UntaggedEuv25 ==
    /\ script = "uv" /\ Accepted /\ Headed(resp, UvHeader)
    /\ SelectedRow[3] = 1250 /\ ~Present(SelectedRow[4])
    /\ result.used = "EUV_div25" /\ result.uv = 5000
    /\ written[1].m = "life_index" /\ written[1].val = 5000
    /\ written[1].tags = {"source", "loc", "stn"}

\* the scripts whose main is modelled
MainScripts == {"uv", "asos_tm", "asos_win", "asos_ts", "asos_backoff", "pop"}

\* the probes among the written points
Probes == {i \in 1..Len(written) : written[i].m = "api_probe"}

FetchFailed == result.kind = "thrown"

\* C13: every run emits an api_probe point recording success or failure, with
\* the latency and, on failure, an error note, also when the fetch failed.
C13_ProbeAlways ==
    script \in MainScripts /\ pc = "done" =>
        /\ Probes # {}
        /\ \A i \in Probes :
             /\ written[i].success = (IF FetchFailed THEN 0 ELSE 1)
             /\ "latency_ms" \in written[i].fields
             /\ written[i].success = 0 => "note" \in written[i].fields

\* the UV run whose every attempt failed ends with nothing written
C13_NoProbe ==
    /\ script = "uv" /\ pc = "done" /\ FetchFailed /\ Len(reqs) = 144
    /\ written = <<>>

\* C14: when the fetch ends in a terminal error, main records a failure
\* probe and the process ends with exit code 0 (uv_to_influx.ts main, the
\* kma_sfctm2 main of asos_feels_to_influx.ts, pop_kmahub_to_influx.ts main).
C14_FailureRecordedExitZero ==
    script \in {"uv", "asos_tm", "pop"} /\ pc = "done" /\ FetchFailed =>
        /\ exitCode = 0
        /\ \E i \in Probes : written[i].success = 0

\* the ASOS run whose every attempt failed exits with status 1, no probe
C14_ExitOne ==
    /\ script = "asos_tm" /\ pc = "done" /\ FetchFailed /\ Len(reqs) = 76
    /\ exitCode = 1 /\ Probes = {}

\* the POP run whose fetch failed writes the failure probe and exits with 0
C14_PopExitZero ==
    /\ script = "pop" /\ pc = "done" /\ FetchFailed
    /\ exitCode = 0 /\ Len(written) = 1 /\ written[1].success = 0

\* the row the kma_sfctm3 revision parsed from the last response, and its age
rowOfLast == parseAsosLinesToLatest(resp, AsosCols)

ageOfLast == now - kstTmToUtc(rowOfLast.tm - TsBase)

LifePoints == {i \in 1..Len(written) : written[i].m = "life_index"}

calMin(c) == (c \div 10000) * DAY_MIN + ((c \div 100) % 100) * 60 + (c % 100)

\* the contract of a time-candidate list L at the clock of the run
CandidatesOk(L) ==
    /\ NewestFirst(L)
    /\ \A i, j \in 1..Len(L) : i # j => L[i] # L[j]
    /\ calMin(L[1]) % STEP_MIN = 0
    /\ calMin(L[1]) <= now + KST_MIN
    /\ now + KST_MIN - calMin(L[1]) < STEP_MIN
    /\ \A i \in 1..(Len(L) - 1) : calMin(L[i + 1]) = calMin(L[i]) - STEP_MIN

\* tmCandidates (second UV revision) and tm10Candidates keep the contract
CandidatesOkLater ==
    /\ result.uv # <<>> => CandidatesOk(result.uv) /\ Len(result.uv) = 19
    /\ result.asos # <<>> => CandidatesOk(result.asos) /\ Len(result.asos) = 19

\* C16: for any current instant each time-candidate list (tmCandidates10m,
\* tmCandidates, tm10Candidates) is most-recent-first and free of duplicates,
\* starts at the latest 10-minute boundary at or before now in KST (never a
\* future time), and steps back by exactly 10 minutes.
C16_CandidatesFromNow ==
    script = "cand" =>
        /\ CandidatesOkLater
        /\ result.uv10m # <<>> => CandidatesOk(result.uv10m)

\* the first candidate of tmCandidates10m lies 9 hours after now
C16_FutureCandidate ==
    /\ script = "cand" /\ Len(result.uv10m) = UV_BACKSTEPS
    /\ calMin(result.uv10m[1]) > now + KST_MIN
    /\ calMin(result.uv10m[1]) - (now + KST_MIN) > KST_MIN - STEP_MIN
    /\ calMin(result.uv10m[UV_BACKSTEPS]) > now + KST_MIN


\* the scripts that compute the feels-like temperature of an ASOS table
AsosScripts == {"asos_tm", "asos_win", "asos_ts"}

\* the last request was answered with table t
Answered(t) == Len(reqs) > 0 /\ resp = t

\* the reading is the heat index of its temperature and humidity (hot-humid)
HotHumid(out) ==
    /\ out.kind = "reading"
    /\ out.tC >= 2700 /\ out.rh >= 4000
    /\ out.feels = heatIndexC(out.tC, out.rh)

\* C17: scenario B: a response without a header whose one whitespace row is
\* [202501011500, 108, 31.0, 70, 2.0] is read as temperature 31.0 and humidity
\* 70, the hot-humid regime is selected and the result is a heat index above
\* 31.0 degC (part_003, part_002, tryFetchOne).
C17_ScenarioBHot ==
    script \in AsosScripts /\ Answered(ScenarioB) =>
        /\ lastOut = "accept" /\ pc = "done"
        /\ HotHumid(result)
        /\ result.tC = 3100 /\ result.rh = 7000
        /\ result.feels > 3100

\* part_002 takes the wind cell 2.0 for the dew point: humidity 15.72 %, the
\* temperature itself is returned
C17_DewPointFromWind ==
    /\ script = "asos_ts" /\ pc = "done" /\ Answered(ScenarioB)
    /\ result.kind = "reading" /\ result.tC = 3100
    /\ result.rh = rhFromTd(3100, 200) /\ result.rh < 4000
    /\ result.feels = 3100
    /\ \E i \in LifePoints : written[i].val = 3100

\* tryFetchOne finds no column without a header: the attempt fails
C17_HeaderNotMatched ==
    /\ script = "asos_tm" /\ Answered(ScenarioB)
    /\ lastOut = "header" /\ result.kind # "reading"

\* part_003 alone returns the heat index of (31.0, 70) for scenario B
C17_StatHot ==
    script = "asos_win" /\ Answered(ScenarioB) =>
        /\ HotHumid(result) /\ result.tC = 3100 /\ result.rh = 7000
        /\ result.feels = 3760

AllHumMissing(t) ==
    /\ t.net /\ t.ok /\ ~t.commented /\ Len(t.rows) > 0
    /\ \A i \in 1..Len(t.rows) : Len(t.rows[i]) >= 5 /\ t.rows[i][4] = -900

\* the request the driver of the kma_sfctm2 revision issues next
NextAsosReq == asosRequest(pos)

\* tryFetchOne fails an attempt whose last row has no humidity (bad RH) and
\* fetchLatestASOS goes on: to the next disp/help variant of the same time
\* candidate, and after the last variant to the next older time candidate
C18_TmSkipsAndAdvances ==
    script = "asos_tm" /\ Len(reqs) > 0 /\ AllHumMissing(resp) =>
        /\ lastOut = "badRH" /\ result.kind # "reading"
        /\ pc = "run" =>
             IF <<LastReq.disp, LastReq.help>> # <<0, 1>>
             THEN /\ NextAsosReq.tm = LastReq.tm
                  /\ <<NextAsosReq.disp, NextAsosReq.help>> # <<LastReq.disp, LastReq.help>>
             ELSE /\ calMin(NextAsosReq.tm) = calMin(LastReq.tm) - STEP_MIN
                  /\ <<NextAsosReq.disp, NextAsosReq.help>> = <<0, 0>>
        /\ pc = "done" => Len(reqs) = 76 /\ result.kind = "thrown" /\ written = <<>>

\* C18: scenario C: when every row of a table has humidity -9, the attempt
\* gives no reading from that table and the driver advances to the next time
\* candidate (tryFetchOne / fetchLatestASOS, part_003).
C18_NoReadingNextCandidate ==
    script \in {"asos_tm", "asos_win"} /\ Len(reqs) > 0 /\ AllHumMissing(resp) =>
        /\ result.kind # "reading"
        /\ Len(reqs) < 76 => pc = "run" /\ calMin(NextAsosReq.tm) < calMin(LastReq.tm)

\* the fifth request, after four failures on the humidity, asks for the
\* candidate ten minutes older
C18_FifthOlder ==
    /\ script = "asos_tm" /\ pc = "run" /\ Len(reqs) = 4 /\ AllHumMissing(resp)
    /\ \A i \in 1..4 : reqs[i].tm = reqs[1].tm
    /\ lastOut = "badRH"
    /\ calMin(NextAsosReq.tm) = calMin(LastReq.tm) - STEP_MIN

\* part_003, table without header: the humidity column is found by the
\* distribution of the values and falls on the temperature; the reading is
\* written with humidity 5 %
C18_HumidityFromTemperature ==
    /\ script = "asos_win" /\ pc = "done" /\ Len(reqs) = 1 /\ AllHumMissing(resp)
    /\ resp.comments = <<>> /\ Len(resp.rows) = 1
    /\ result.kind = "reading" /\ result.tC = 500 /\ result.rh = 500
    /\ \E i \in LifePoints : written[i].val = result.feels

\* part_003 reads a warm row without humidity through its dew point
C18_WarmFromDewPoint ==
    /\ script = "asos_win" /\ pc = "done" /\ Len(reqs) = 1 /\ AllHumMissing(resp)
    /\ result.kind = "reading" /\ result.tC = 3100
    /\ result.rh = rhFromTd(3100, 2500) /\ result.feels > 3100

\* the last response is a table of six named columns (..., TA, HM, WS, TD)
NamedTd == Len(reqs) > 0 /\ resp.net /\ resp.ok /\ resp.comments = <<AsosHeaderTd>>

\* the row of the table the reading was taken from
UsedRow == resp.rows[result.row]

\* C20: self-correction: when a dew-point humidity is available and the
\* result of the primary humidity is more than 12 degC off the temperature,
\* the result is recomputed with the dew-point humidity and the one closer to
\* the temperature is kept (the primary one on a tie); the humidity returned
\* with the reading is the one its feels-like value was computed from
\* (part_003; in part_002 the dew-point humidity is the primary one).
C20_SelfCorrection ==
    /\ script = "asos_win" /\ pc = "done" /\ result.kind = "reading" =>
         /\ result.feels = feelsOf(result.tC, result.rh, result.wMs)
         /\ NamedTd /\ toNum(UsedRow[4]) >= 2000 /\ isFinite(toNum(UsedRow[6])) =>
              LET tC   == UsedRow[3]
                  hm   == UsedRow[4]
                  ws   == UsedRow[5]
                  rhTd == rhFromTd(tC, UsedRow[6])
                  prim == feelsOf(tC, hm, ws)
                  alt  == feelsOf(tC, rhTd, ws)
              IN  IF Abs(prim - tC) > 1200 /\ Abs(alt - tC) < Abs(prim - tC)
                  THEN result.rh = rhTd /\ result.feels = alt
                  ELSE result.rh = hm /\ result.feels = prim
    /\ script = "asos_ts" /\ pc = "done" /\ result.kind = "reading" =>
         /\ result.feels = feelsNoWind(result.tC, result.rh)
         /\ NamedTd /\ isFinite(toNum(UsedRow[6])) =>
              result.rh = rhFromTd(UsedRow[3], UsedRow[6])

\* 31 degC at 100 %: the heat index 49.5 is replaced by the one of the
\* dew-point humidity, and that humidity is returned
C20_Witness ==
    /\ script = "asos_win" /\ pc = "done" /\ NamedTd /\ result.kind = "reading"
    /\ UsedRow[3] = 3100 /\ UsedRow[4] = 10000
    /\ Abs(heatIndexC(3100, 10000) - 3100) > 1200
    /\ result.rh = rhFromTd(3100, 2500) /\ result.rh # 10000
    /\ result.feels = heatIndexC(3100, result.rh)
    /\ Abs(result.feels - 3100) < Abs(heatIndexC(3100, 10000) - 3100)

\* 0 degC in a wind of 70 m/s: the wind chill is the same with either
\* humidity, the primary humidity is kept
C20_TieKeepsPrimary ==
    /\ script = "asos_win" /\ pc = "done" /\ NamedTd /\ result.kind = "reading"
    /\ UsedRow[3] = 0 /\ UsedRow[5] = 7000
    /\ Abs(result.feels - result.tC) > 1200
    /\ result.rh = 7000

\* no two requests of the run have the same target
TargetsOnce == \A i, j \in 1..Len(reqs) : i # j => reqs[i] # reqs[j]

\* C21: no request target (station, time candidate, format variant) is issued
\* more than once in a run, for every configuration, UV_STN=0 included.
C21_NoTargetTwice ==
    script \in {"uv", "asos_tm", "asos_backoff"} => TargetsOnce

\* UV_STN=0: stnList is ["0", "0"], and the 73rd request repeats the first
C21_SecondPassRepeats ==
    /\ script = "uv" /\ stnWanted = 0 /\ Len(reqs) = 73
    /\ reqs[73] = reqs[1] /\ reqs[73].stn = 0

\* with a specific station configured every target is asked for once
C21_SpecificStationOnce ==
    stnWanted # 0 => TargetsOnce

\* the rows of the last response that reach column resolution: the rows of
\* fetchLatestUV after its filter, the rowsS of buildRowsFrom
ResolvedRows ==
    IF script = "uv" THEN uvRows(resp.rows) ELSE buildRowsFrom(asosBody(resp))

SameLength(rows) == \A i, j \in 1..Len(rows) : Len(rows[i]) = Len(rows[j])

\* C22: rows whose token count differs from the modal row length are
\* discarded before column resolution: all rows of a table that reach column
\* resolution and row selection have the same token count.
C22_RowsSameLength ==
    script \in {"uv", "asos_tm"} /\ Len(reqs) > 0 /\ resp.net /\ resp.ok =>
        SameLength(ResolvedRows)

\* the newest line of three has one cell less; it is the row the reading is
\* taken from (EUV 12.5 / 25), the rows of the modal length are not read
C22_ShortRowRead ==
    /\ script = "uv" /\ pc = "done" /\ resp = UvMixed /\ result.kind = "reading"
    /\ Len(ResolvedRows) = 3 /\ ~SameLength(ResolvedRows)
    /\ result.row = 3 /\ Len(ResolvedRows[3]) = 3 /\ Len(ResolvedRows[1]) = 4
    /\ result.uv = 5000

\* tryFetchOne reads the row of five cells of a table of six-cell rows
C22_AsosShortRowRead ==
    /\ script = "asos_tm" /\ pc = "done" /\ resp = AsosMixed /\ result.kind = "reading"
    /\ Len(ResolvedRows) = 3 /\ Len(ResolvedRows[1]) = 6 /\ Len(ResolvedRows[3]) = 5
    /\ result.tC = 500

\* the row the accepted UV reading was taken from, and what tryGetUVI found
\* in it
UvRowOfReading == uvRowsOfLast[result.row]

UvFoundOfReading == tryGetUVI(UvRowOfReading, LastReq.stn, stnWanted, uvIndicesOfLast)

\* column c (0-based) of row r holds the observation time or the station code
HoldsTimeOrStation(r, c) ==
    \/ isTs12(Cell(r, c))
    \/ isDate8(Cell(r, c))
    \/ c > 0 /\ isDate8(Cell(r, c - 1))
    \/ Cell(r, c) = STN108

\* C23: the last-resort heuristic of tryGetUVI never takes its value from a
\* column holding the observation time (a date-time column, or the date or
\* the time column of a split pair) or the station code, whatever the row
\* holds, rows observed at 00:00 included.
C23_HeuristicSkipsTimeAndStation ==
    uvParsed /\ lastOut = "accept" /\ result.used = "heuristic" =>
        ~HoldsTimeOrStation(UvRowOfReading, UvFoundOfReading.col)

\* a row observed at 00:00 with EUV 12.5 and UV-B 3.0: the reading is 0, the
\* time cell "0000" taken as the index
C23_MidnightTimeAsIndex ==
    /\ uvParsed /\ pc = "done" /\ result.kind = "reading" /\ result.used = "heuristic"
    /\ uvIndicesOfLast.iTime = -1 /\ uvIndicesOfLast.pairTime = 0
    /\ UvRowOfReading = UvSplitRow(1, 0, <<1250, 300>>)
    /\ UvFoundOfReading.col = 1 /\ UvFoundOfReading.tx = "id"
    /\ result.uv = 0
    /\ result.ts = DAY_MIN - KST_MIN
    /\ \E i \in 1..Len(written) : written[i].m = "life_index" /\ written[i].val = 0

\* at every other minute the time cell is a whole number of 1..2359 and is
\* passed over as a station-like code
C23_OtherTimesSkipped ==
    uvParsed /\ lastOut = "accept" /\ result.used = "heuristic"
        /\ HoldsTimeOrStation(UvRowOfReading, UvFoundOfReading.col) =>
            Cell(UvRowOfReading, UvFoundOfReading.col) = 0

\* the station cell of a modelled UV row
StationOf(row) == IF isDate8(row[1]) THEN row[3] ELSE row[2]

\* the row holds a usable UV-B index or an EUV value converting into 0..20
UvValid(row) ==
    LET u == toNum(row[Len(row)])
        e == toNum(row[Len(row) - 1])
    IN  \/ isFinite(u) /\ u >= 0 /\ inUviRange(apply(u, "id"))
        \/ isFinite(e) /\ e >= 0 /\ inUviRange(apply(e, "div25"))

\* from an all-stations response (stn=0) only rows of the configured station
\* are selected when UV_STN is a specific station
C24_SpecificStationOnly ==
    uvParsed /\ Accepted /\ LastReq.stn = 0 /\ stnWanted # 0 =>
        StationOf(UvRowOfReading) = stnWanted

\* C24: the station filter of the UV fetch: from an all-stations response
\* only rows of the configured station are selected when UV_STN is a specific
\* station id, and when UV_STN is 0 a valid row of any station can be
\* selected, so that a reading is produced.
C24_StationFilter ==
    /\ C24_SpecificStationOnly
    /\ uvParsed /\ stnWanted = 0 /\ (\E k \in 1..Len(uvRowsOfLast) : UvValid(uvRowsOfLast[k])) =>
         lastOut = "accept"

\* UV_STN=0: the row of station 108 with UV-B 3.0 is dropped by the station
\* test ("108" !== "0"), the attempt finds no valid row
C24_AllStationsDropsEveryRow ==
    /\ uvParsed /\ stnWanted = 0 /\ LastReq.stn = 0
    /\ Len(uvRowsOfLast) = 1 /\ UvValid(uvRowsOfLast[1]) /\ StationOf(uvRowsOfLast[1]) = STN108
    /\ uvIndicesOfLast.iStn = 1
    /\ tryGetUVI(uvRowsOfLast[1], 0, 0, uvIndicesOfLast) = None
    /\ lastOut = "novalid" /\ result.kind # "reading"

\* with station 108 configured, the older row of station 108 is read from an
\* all-stations table whose newest row is of station 159
C24_OtherStationSkipped ==
    /\ uvParsed /\ Accepted /\ LastReq.stn = 0 /\ stnWanted = STN108
    /\ resp.rows = UvTwoStations /\ result.row = 1 /\ result.uv = 30000

\* a run with UV_STN=0 never ends with a reading
C24_AllStationsNeverReads ==
    script = "uv" /\ stnWanted = 0 => result.kind # "reading"

\* the minutes between the window ends of requests i and i + 1
Tm2Step(i) == calMin(reqs[i].tm2) - calMin(reqs[i + 1].tm2)

\* every window end is a 10-minute KST boundary at least 10 minutes before
\* now, every window is 90 minutes long, and 3 windows at most are asked for
\* before the error is thrown
WindowsWellFormed ==
    /\ Len(reqs) <= WIN_TRIES
    /\ \A i \in 1..Len(reqs) :
         /\ calMin(reqs[i].tm2) % STEP_MIN = 0
         /\ calMin(reqs[i].tm2) <= now + KST_MIN - 10
         /\ calMin(reqs[i].tm2) - calMin(reqs[i].tm1) = 90
    /\ pc = "done" /\ result.kind = "thrown" /\ lastOut = "no data rows" => Len(reqs) = WIN_TRIES

\* C25: in the windowed ASOS fetch each retry backs off by one hour: tm2 of
\* attempt i+1 is exactly 60 minutes before tm2 of attempt i, every tm2 is a
\* 10-minute KST boundary at least 10 minutes before now, and at most 3
\* attempts are made before the error is thrown.
C25_BackoffOneHour ==
    script = "asos_backoff" =>
        /\ WindowsWellFormed
        /\ \A i \in 1..(Len(reqs) - 1) : Tm2Step(i) = 60

\* the second window ends 70 minutes before the first
C25_SeventyMinutes ==
    /\ script = "asos_backoff" /\ Len(reqs) = 2 /\ lastOut = "no data rows"
    /\ Tm2Step(1) = 70
    /\ calMin(reqs[1].tm2) - calMin(reqs[2].tm1) = 160

\* each retry ends its window 70 minutes before the one before
C25_BackoffSeventy ==
    script = "asos_backoff" =>
        /\ WindowsWellFormed
        /\ \A i \in 1..(Len(reqs) - 1) : Tm2Step(i) = 70

\* the pop points written
PopPoints == {i \in 1..Len(written) : written[i].m = "pop"}

\* C26: every pop_pct value written to the sink lies in 0..100, for every
\* numeric value found in the POP column of the source.
C26_PopPctInRange ==
    \A i \in PopPoints : written[i].val >= 0 /\ written[i].val <= 100

\* the older script writes a POP cell of 150 as pop_pct = 150
C26_PopPctOver100 ==
    /\ script = "pop_rows" /\ pc = "done" /\ Len(resp.rows) = 1
    /\ resp.rows[1][3] = 15000
    /\ \E i \in PopPoints : written[i].val = 150 /\ written[i].src = "kmahub-di2"

\* the fct_afs_dl2 revision clamps: a POP cell of 150 is written as 100
C26_ClampedTo100 ==
    script = "pop" => C26_PopPctInRange

\* a POP cell of 1 is taken for a 0..1 scale and written as 100
C26_OneBecomes100 ==
    /\ script = "pop_rows" /\ pc = "done" /\ Len(resp.rows) = 1
    /\ resp.rows[1][3] = 100
    /\ \E i \in PopPoints : written[i].val = 100

\* what tryGetUVI makes of row k of the rows of the last response
UvFoundOfRow(k) == tryGetUVI(uvRowsOfLast[k], LastReq.stn, stnWanted, uvIndicesOfLast)

\* C27: EUV x 40 is never the accepted conversion: tryGetUVI returns no
\* EUV_mul40 result, and the heuristic returns no mul40 transform, for any row.
C27_NeverMul40 ==
    uvParsed =>
        /\ \A k \in 1..Len(uvRowsOfLast) :
              UvFoundOfRow(k) # None =>
                  UvFoundOfRow(k).tx # "mul40" /\ UvFoundOfRow(k).used # "EUV_mul40"
        /\ result.kind = "reading" => result.used # "EUV_mul40"

\* an EUV of 0.3 lands in 0..20 under x 40 as well, and is read as 0.3 / 25
C27_Mul40InRangeNotTaken ==
    /\ uvParsed /\ pc = "done" /\ result.kind = "reading"
    /\ result.used = "EUV_div25" /\ result.uv = 120
    /\ Cell(UvRowOfReading, uvIndicesOfLast.idxEUV) = 30
    /\ inUviRange(apply(30, "mul40"))

\* an EUV of 600 is above 20 under / 25 and under x 40: the row gives nothing
C27_LargeEuvRejected ==
    /\ uvParsed /\ Len(uvRowsOfLast) = 1 /\ uvIndicesOfLast.idxEUV >= 0
    /\ Cell(uvRowsOfLast[1], uvIndicesOfLast.idxEUV) = 60000
    /\ UvFoundOfRow(1) = None

\* without header the heuristic reads the cell 0.3 as it is
C27_HeuristicIdentity ==
    /\ uvParsed /\ pc = "done" /\ result.kind = "reading"
    /\ result.used = "heuristic" /\ result.uv = 3000
    /\ UvFoundOfReading.tx = "id"

\* C28: every UV index returned by fetchLatestUV lies in 0..20, whichever of
\* the methods (UV-B, EUV conversion, heuristic) produced it.
C28_UvInRange ==
    script = "uv" /\ result.kind = "reading" => inUviRange(result.uv)

\* a direct UV-B index of 25 is returned as 25
C28_DirectIndexAbove20 ==
    /\ uvParsed /\ pc = "done" /\ result.kind = "reading"
    /\ result.used = "UV-B" /\ result.uv = 250000
    /\ Cell(UvRowOfReading, uvIndicesOfLast.idxUVB_index) = 2500

\* the EUV conversion and the heuristic stay within 0..20
C28_ConvertedInRange ==
    script = "uv" /\ result.kind = "reading" /\ result.used # "UV-B" => inUviRange(result.uv)

\* the only row of the last response holds the temperature -9.0
MinusNineRow ==
    /\ Len(reqs) > 0 /\ resp.net /\ resp.ok /\ ~resp.commented
    /\ Len(resp.rows) = 1 /\ Len(resp.rows[1]) >= 5
    /\ resp.rows[1][3] = -900 /\ resp.rows[1][4] = 7000 /\ resp.rows[1][5] = 300

\* C29: no accepted ASOS reading has a temperature at or below -8.9 degC: a
\* row with such a temperature is rejected like a row without temperature,
\* although the value lies inside the -60..60 band.
C29_NoSentinelTemperature ==
    script \in AsosScripts \cup {"asos_backoff"} /\ result.kind = "reading" =>
        result.tC > SENTINEL_MAX

\* the kma_sfctm3 revision reads the row of -9.0 degC and writes its point
C29_MinusNineAccepted ==
    /\ script = "asos_backoff" /\ pc = "done" /\ MinusNineRow
    /\ result.kind = "reading" /\ result.tC = -900
    /\ \E i \in 1..Len(written) : written[i].m = "life_index"

\* the revisions reading their cells through toNum accept no such reading
C29_ToNumRevisions ==
    script \in AsosScripts /\ result.kind = "reading" => result.tC > SENTINEL_MAX

\* ... and give no reading for the row of -9.0 degC
C29_MinusNineRejected ==
    /\ script \in AsosScripts /\ pc = "done" /\ MinusNineRow
    /\ result.kind # "reading"

\* the last response had a status outside 2xx and a table as its body
ErrorBodyAnswered ==
    Len(reqs) > 0 /\ resp.net /\ ~resp.ok /\ Len(resp.rows) > 0

\* C30: no reading is derived from the body of a response whose HTTP status
\* is not 2xx: such a response counts as a failed attempt and its text is not
\* parsed into a row.
C30_ErrorBodyNeverRead ==
    ErrorBodyAnswered => result.kind \notin {"reading", "series", "stale"}

\* the kma_sfctm3 revision parses the body of the failed response and writes
\* the reading of its row
C30_ErrorBodyRead ==
    /\ script = "asos_backoff" /\ pc = "done" /\ resp = AsosErrorBody
    /\ result.kind = "reading" /\ result.tC = 500
    /\ \E i \in 1..Len(written) : written[i].m = "life_index"

\* every other script tests res.ok before it reads the text
C30_StatusTested ==
    script # "asos_backoff" /\ ErrorBodyAnswered =>
        /\ result.kind \notin {"reading", "series", "stale"}
        /\ lastOut = "http"

\* the UV driver goes on to the next url after the failed response
C30_UvErrorBodySkipped ==
    /\ script = "uv" /\ pc = "run" /\ resp = UvErrorBody
    /\ lastOut = "http" /\ result = None

====
